---- MODULE Spec2Model ----
(***************************************************************************)
(* A model of the Telegram blog bot (src/bot): the handlers of             *)
(* handlers.py, the GitHub client of github_service.py, the resize step    *)
(* and the adaptive compression loop of image_service.py, the path namer   *)
(* and the frontmatter functions of content_service.py, the two clock      *)
(* reads of publish_content, and the remote content store the client       *)
(* talks to.                                                               *)
(*                                                                         *)
(* Scheduling.  main.py builds the application without concurrent_updates, *)
(* so one update's handler runs to completion before the next update is    *)
(* dispatched; job-queue callbacks (_process_media_group) are separate     *)
(* asyncio tasks and interleave with the handler and with each other at    *)
(* every await.  One action of the model is the code between two awaits;   *)
(* a remote request takes effect on the store in the action that consumes  *)
(* its response.                                                           *)
(*                                                                         *)
(* Routing.  main.py registers start, help, status, photo and text only;   *)
(* list_handler, delete_handler and document_handler are defined in        *)
(* handlers.py behind the same decorator and are modelled as handlers an   *)
(* update can reach, since routing is outside what is verified here.       *)
(*                                                                         *)
(* In the handlers strings are sequences of one-character strings; in the  *)
(* functions of content_service.py and of /list, whose results depend on   *)
(* character ranges and order, a text is the sequence of its code points.  *)
(* Time is counted in ticks of half a second; a pending job carries the    *)
(* ticks left before it is due.                                            *)
(***************************************************************************)
EXTENDS Integers, Sequences, FiniteSets, TLC

\* ------------------------------------------------------------------ bounds
MaxUpdates == 3      \* updates the bot receives in one behaviour
NumPaths == 2        \* distinct content paths generate_file_path may return
NumGroups == 2       \* distinct media_group_id values
MaxSizeSteps == 40   \* encoded sizes range over 1..MaxSizeSteps twentieths of 5 MiB
MaxTextLen == 5      \* the longest of the texts drawn from TextChars
MaxChunks == 4       \* the most pieces a document of the model is made of
MaxArgLen == 2       \* the longest argument of /list
MaxEntries == 4      \* the most entries of a content directory
MaxClockTicks == 2   \* seconds the clock may advance during one publish
MaxBodyLen == 2      \* the longest of the short bodies of a text publish

\* --------------------------------------------------------- program constants
WHEN == 3                  \* run_once(when=1.5), in ticks of 0.5 s
DEFAULT_LIMIT == 10        \* list_handler: limit = 10
MAX_LIMIT == 30            \* list_handler: min(int(context.args[0]), 30)
MAX_DOC_SIZE == 5242880    \* 5 * 1024 * 1024, document_handler's size limit
IMAGE_QUALITY == 85        \* int(config.IMAGE_QUALITY * 100)
MAX_FILE_SIZE == 5242880   \* config.MAX_FILE_SIZE
IMAGE_COMPRESSION_THRESHOLD == 10485760   \* config.IMAGE_COMPRESSION_THRESHOLD
MAX_IMAGE_WIDTH == 1920    \* config.MAX_IMAGE_WIDTH
MAX_IMAGE_HEIGHT == 1080   \* config.MAX_IMAGE_HEIGHT

Paths == 1..NumPaths
Gids == 1..NumGroups
Owner == "owner"
Stranger == "stranger"
Users == {Owner, Stranger}

\* ----------------------------------------------------------------- strings
WhiteSpace == {" ", "\n", "\t"}

RECURSIVE LStrip(_)
LStrip(s) ==
    IF s # <<>> /\ Head(s) \in WhiteSpace THEN LStrip(Tail(s)) ELSE s

RECURSIVE RStrip(_)
RStrip(s) ==
    IF s # <<>> /\ s[Len(s)] \in WhiteSpace
    THEN RStrip(SubSeq(s, 1, Len(s) - 1))
    ELSE s

\* str.strip()
Strip(s) == RStrip(LStrip(s))

\* Python truthiness of a str
Truthy(s) == s # <<>>

\* str.lower() on the characters the model uses
LowerChar(c) ==
    CASE c = "M" -> "m"
      [] c = "D" -> "d"
      [] c = "A" -> "a"
      [] OTHER -> c

Lower(s) == [i \in 1..Len(s) |-> LowerChar(s[i])]

\* str.endswith(suffix)
EndsWith(s, suffix) ==
    /\ Len(s) >= Len(suffix)
    /\ SubSeq(s, Len(s) - Len(suffix) + 1, Len(s)) = suffix

\* ------------------------------------------------------------------- state
VARIABLES
    ALLOWED_USERS,   \* config.ALLOWED_USERS
    _media_groups,   \* handlers._media_groups: media_group_id -> list of updates
    job_queue,       \* whether application.job_queue exists (an optional extra)
    jobs,            \* pending job-queue jobs: records [id, data, left]
    nextJob,         \* number of jobs armed so far
    nextUpdate,      \* number of updates received so far
    tasks,           \* coroutines, running or finished: task id -> frame
    files,           \* content repository: path -> sha (0: no file)
    nextSha,         \* next sha the store hands out
    assets,          \* image repository: the uploaded assets (by photo id)
    compress,        \* the frame of a call of image_service.compress_image
    resize,          \* the resize step of _smart_compress: img.size before and after
    namer,           \* the frame of a call of content_service.generate_file_path
    assemble,        \* the frame of a call of assemble_content_with_title
    lister,          \* the frame of a /list: its limit and list_essays(limit)
    clock,           \* the wall clock, in seconds since 2024-03-01 00:00:00 (UTC+8)
    publish          \* the frame of publish_content up to its first await

vars == <<ALLOWED_USERS, _media_groups, job_queue, jobs, nextJob, nextUpdate, tasks,
          files, nextSha, assets, compress, resize, namer,
          assemble, lister, clock, publish>>

\* The frames of the functions that are checked on their own.
pureVars == <<compress, resize, namer, assemble, lister, clock, publish>>

\* What the bot's handlers hold.
botVars == <<ALLOWED_USERS, _media_groups, job_queue, jobs, nextJob, nextUpdate,
             tasks, files, nextSha, assets>>

NoSha == 0
None == [sha |-> NoSha]

\* A task id: <<"u", n>> the handler of update n, <<"j", n>> the callback of job n.
HandlerId(n) == <<"u", n>>
JobId(n) == <<"j", n>>

\* One remote call, as the coroutine that made it saw it.
Call(op, arg, sha, status) ==
    [op |-> op, arg |-> arg, sha |-> sha, status |-> status]

\* A coroutine's frame: its locals, its position, and what it has done so far
\* (calls: the remote calls it made; replies: the reply_text messages it sent).
\* photos holds u.message.photo[-1] for each u of updates, which is all the
\* upload loop reads of them; caption is emptied once the body is composed.
\* user is update.effective_user of the update the coroutine works for (of the
\* first update of the group, for a flush), limit and essays are the locals of
\* list_handler.
Frame(kind, pc) ==
    [kind |-> kind, pc |-> pc, photos |-> <<>>, caption |-> <<>>,
     cdn_urls |-> <<>>, body |-> [text |-> <<>>, images |-> <<>>],
     file_path |-> 0, existing |-> None, action |-> "", result |-> "",
     calls |-> <<>>, replies |-> <<>>, group_id |-> 0,
     doc |-> [file_name |-> <<>>, file_size |-> 0],
     user |-> "", limit |-> 0, essays |-> <<>>]

\* The frame of a handler that was called with an update of the given user.
From(user, frame) == [frame EXCEPT !.user = user]

\* Application without concurrent_updates: the next update is dispatched only
\* when the previous update's handler has returned.
DispatcherIdle == \A t \in DOMAIN tasks : t[1] = "u" => tasks[t].pc = "done"

CanReceive == DispatcherIdle /\ nextUpdate < MaxUpdates

\* A coroutine that has returned keeps its frame (for inspection) for one
\* step of the system; then the frame is gone.
Live == {t \in DOMAIN tasks : tasks[t].pc # "done"}

Swept(frames) == [s \in DOMAIN frames \ (DOMAIN tasks \ Live) |-> frames[s]]

Spawn(t, frame) == tasks' = Swept((t :> frame) @@ tasks)

\* Coroutine t moves on to frame.
Step(t, frame) == tasks' = Swept([tasks EXCEPT ![t] = frame])


\* ------------------------------------------------- the remote store (GitHub)
\* What the contents API answers.  A request may also fail on its own: 500 is
\* any 5xx answer, 0 stands for a transport error or the 30 s timeout (no
\* response at all).  A PUT or DELETE of a content file already has a non-2xx
\* answer of the store's own (409), so only the transport failure is added.
FailStatuses == {500, 0}

WriteFailStatuses == {0}

\* GET contents/{path}: 200 with the file's sha, or 404.
StoreGetStatus(p) == IF files[p] # NoSha THEN 200 ELSE 404

\* PUT contents/{path}: accepted when the sha sent is the file's current sha,
\* or when no sha is sent and there is no file; otherwise 409.
StorePutStatus(p, sha) == IF files[p] = sha THEN 200 ELSE 409

\* DELETE contents/{path}: accepted when the sha sent is the current sha.
StoreDeleteStatus(p, sha) ==
    IF files[p] # NoSha /\ files[p] = sha THEN 200 ELSE 409

\* The store after the request: an accepted PUT gives the path a fresh sha,
\* an accepted DELETE removes the file, anything else changes nothing.
StoreAfterPut(p, status) ==
    IF status = 200
    THEN /\ files' = [files EXCEPT ![p] = nextSha]
         /\ nextSha' = nextSha + 1
    ELSE UNCHANGED <<files, nextSha>>

StoreAfterDelete(p, status) ==
    /\ files' = IF status = 200 THEN [files EXCEPT ![p] = NoSha] ELSE files
    /\ UNCHANGED nextSha

\* --------------------------------------------------- github_service.py client
\* Faulty variant of request: raise_for_status is left out.
RaisesWithoutStatusCheck(status) == status = 0

\* GitHubService.request: the transport raises when there is no response,
\* raise_for_status raises on 4xx and 5xx.
RequestRaises(status) == status = 0 \/ status >= 400

\* Faulty variant of get_file: every error becomes None.
GetFileSwallowsAll(status) == FALSE

\* get_file: a 404 is caught and becomes None; every other error is re-raised.
GetFileRaises(status) == RequestRaises(status) /\ status # 404

GetFileResult(status, sha) ==
    IF RequestRaises(status) THEN None ELSE [sha |-> sha]

\* publish_content: action = "Update" if existing else "Add"
ActionOf(existing) == IF existing # None THEN "Update" ELSE "Add"

\* Faulty variant of the token: the sha that was found is not sent.
ShaDropped(existing) == NoSha

\* publish_content: sha = existing["sha"] if existing else None
ShaOf(existing) == IF existing # None THEN existing.sha ELSE NoSha

\* PublishResult.action = action.lower()
ActionLower(action) ==
    CASE action = "Update" -> "update"
      [] action = "Add" -> "add"
      [] OTHER -> action

\* The handlers' `except Exception`: log, send one failure notice, return.
Failed(frame, call) ==
    [frame EXCEPT !.pc = "done", !.result = "failed",
                  !.calls = Append(@, call), !.replies = Append(@, "failed")]

\* publish_content / publish_markdown_file up to the answer of get_file: the
\* content is assembled, generate_file_path picks the path (date, time and a
\* random suffix: any path), and the path is read.
PublishGet(t) ==
    /\ t \in DOMAIN tasks
    /\ tasks[t].pc = "get"
    /\ \E p \in Paths : \E status \in {StoreGetStatus(p)} \cup FailStatuses :
         LET call == Call("get", p, IF status = 200 THEN files[p] ELSE NoSha, status)
             existing == GetFileResult(status, files[p])
         IN  Step(t,
                 IF GetFileRaises(status)
                 THEN Failed(tasks[t], call)
                 ELSE [tasks[t] EXCEPT !.pc = "put", !.file_path = p,
                                       !.existing = existing,
                                       !.action = ActionOf(existing),
                                       !.calls = Append(@, call)])
    /\ UNCHANGED <<pureVars, ALLOWED_USERS, _media_groups, job_queue, jobs, nextJob,
                   nextUpdate, files, nextSha, assets>>

\* create_or_update_file and the rest of publish_content, then the caller's
\* reply: the PUT carries the sha found (if any); an error is raised to the
\* handler, otherwise PublishResult(action.lower()) is reported.
PublishPut(t) ==
    /\ t \in DOMAIN tasks
    /\ tasks[t].pc = "put"
    /\ LET p == tasks[t].file_path
           sha == ShaOf(tasks[t].existing)
       IN  \E status \in {StorePutStatus(p, sha)} \cup WriteFailStatuses :
             LET call == Call("put", p, sha, status)
             IN  /\ StoreAfterPut(p, status)
                 /\ Step(t,
                        IF RequestRaises(status)
                        THEN Failed(tasks[t], call)
                        ELSE [tasks[t] EXCEPT
                                 !.pc = "done", !.result = "published",
                                 !.action = ActionLower(@),
                                 !.calls = Append(@, call),
                                 !.replies = Append(@, "published")])
    /\ UNCHANGED <<pureVars, ALLOWED_USERS, _media_groups, job_queue, jobs, nextJob,
                   nextUpdate, assets>>

\* ------------------------------------------------------------- handlers.py
\* Faulty variant of the wrapper: every user is let through.
Anyone(user) == TRUE

\* authorized_only: the user must be in config.ALLOWED_USERS.
Authorized(user) == user \in ALLOWED_USERS

\* The wrapper's silent refusal.
Refused(kind) == [Frame(kind, "done") EXCEPT !.result = "unauthorized"]

Texts == {<<>>, <<" ">>, <<"h", "i">>}

\* Faulty variant of the blank test: only the empty text is turned away.
EmptyTextOnly(text) == ~Truthy(text)

\* text_handler: if not text or not text.strip(): return
IsBlankText(text) == ~Truthy(text) \/ ~Truthy(Strip(text))

\* text_handler up to its first await that leaves the handler suspended.
TextHandler ==
    /\ CanReceive
    /\ \E user \in Users, text \in Texts :
         LET t == HandlerId(nextUpdate + 1)
         IN  Spawn(t, From(user,
                 IF ~Authorized(user) THEN Refused("text")
                 ELSE IF IsBlankText(text)
                 THEN [Frame("text", "done") EXCEPT
                          !.result = "ignored",
                          !.body = [text |-> text, images |-> <<>>]]
                 ELSE [Frame("text", "get") EXCEPT
                          !.body = [text |-> text, images |-> <<>>],
                          !.calls = <<Call("send_action", 0, NoSha, 200)>>]))
    /\ nextUpdate' = nextUpdate + 1
    /\ UNCHANGED <<pureVars, ALLOWED_USERS, _media_groups, job_queue, jobs, nextJob,
                   files, nextSha, assets>>


Captions == {<<>>, <<" ">>, <<"c">>}

\* A photo update as the collector keeps it: its arrival number (which also
\* names its photo file), its caption and its sender.
Item(n, caption, user) == [id |-> n, caption |-> caption, user |-> user]

\* u.message.photo[-1] for u in updates: the photo files, named by arrival.
Photos(updates) == [i \in 1..Len(updates) |-> updates[i].id]

\* Faulty variant of the membership test: every grouped photo is taken for
\* the first of its group.
AlwaysNewGroup(group_id) == TRUE

\* if group_id not in _media_groups
IsNewGroup(group_id) == group_id \notin DOMAIN _media_groups

\* Faulty variant of the append: the update is put at the front of the list.
PrependUpdate(updates, update) == <<update>> \o updates

\* _media_groups[group_id].append(update)
AppendUpdate(updates, update) == Append(updates, update)

\* job_queue.run_once(_process_media_group, when=1.5, data=group_id)
RunOnce(group_id) ==
    /\ jobs' = jobs \cup {[id |-> nextJob + 1, data |-> group_id, left |-> WHEN]}
    /\ nextJob' = nextJob + 1

\* photo_handler.  A grouped photo is collected and the handler returns; the
\* first photo of a group id that is not in the map creates the list and arms
\* the job.  Without a job queue, run_once raises after the empty list was
\* stored and before the append.  A photo with no group id goes to
\* _process_single_photo.
PhotoHandler ==
    /\ CanReceive
    /\ \E user \in Users, group_id \in Gids \cup {0}, caption \in Captions :
         LET n == nextUpdate + 1
             t == HandlerId(n)
             update == Item(n, caption, user)
         IN  IF ~Authorized(user)
             THEN /\ Spawn(t, From(user, Refused("photo")))
                  /\ UNCHANGED <<_media_groups, jobs, nextJob>>
             ELSE IF group_id = 0
             THEN /\ Spawn(t, From(user, [Frame("photo", "item") EXCEPT
                         !.photos = Photos(<<update>>), !.caption = caption,
                         !.calls = <<Call("send_action", 0, NoSha, 200)>>]))
                  /\ UNCHANGED <<_media_groups, jobs, nextJob>>
             ELSE IF ~IsNewGroup(group_id)
             THEN /\ _media_groups' = [_media_groups EXCEPT
                         ![group_id] = AppendUpdate(@, update)]
                  /\ Spawn(t, From(user, [Frame("photo", "done") EXCEPT
                         !.result = "collected", !.group_id = group_id]))
                  /\ UNCHANGED <<jobs, nextJob>>
             ELSE IF job_queue
             THEN /\ RunOnce(group_id)
                  /\ _media_groups' =
                         (group_id :> AppendUpdate(<<>>, update)) @@ _media_groups
                  /\ Spawn(t, From(user, [Frame("photo", "done") EXCEPT
                         !.result = "collected", !.group_id = group_id]))
             ELSE /\ _media_groups' = (group_id :> <<>>) @@ _media_groups
                  /\ Spawn(t, From(user, [Frame("photo", "done") EXCEPT
                         !.result = "error", !.group_id = group_id,
                         !.replies = <<"internal_error">>]))
                  /\ UNCHANGED <<jobs, nextJob>>
    /\ nextUpdate' = nextUpdate + 1
    /\ UNCHANGED <<pureVars, ALLOWED_USERS, job_queue, files, nextSha, assets>>

\* Half a second passes for every pending job.
Tick ==
    /\ \E j \in jobs : j.left > 0
    /\ jobs' = {[j EXCEPT !.left = IF @ > 0 THEN @ - 1 ELSE 0] : j \in jobs}
    /\ tasks' = Swept(tasks)
    /\ UNCHANGED <<pureVars, ALLOWED_USERS, _media_groups, job_queue, nextJob,
                   nextUpdate, files, nextSha, assets>>

\* _media_groups.pop(group_id, [])
Popped(group_id) ==
    IF group_id \in DOMAIN _media_groups THEN _media_groups[group_id] ELSE <<>>

\* Faulty variant of the pop: the list is read (dict.get) and left in the map.
AfterGet(group_id) == _media_groups

AfterPop(group_id) ==
    [g \in DOMAIN _media_groups \ {group_id} |-> _media_groups[g]]

\* The first update with a caption: for u in updates: if u.message.caption: ...
RECURSIVE FirstCaption(_)
FirstCaption(updates) ==
    IF updates = <<>> THEN <<>>
    ELSE IF Truthy(Head(updates).caption) THEN Head(updates).caption
    ELSE FirstCaption(Tail(updates))

\* _process_media_group up to its first await: the job is due and runs; it
\* pops the group, returns if the list is empty, picks the caption.
ProcessMediaGroup(j) ==
    /\ j \in jobs
    /\ j.left = 0
    /\ jobs' = jobs \ {j}
    /\ LET updates == Popped(j.data)
       IN  /\ _media_groups' = AfterPop(j.data)
           /\ Spawn(JobId(j.id),
                  IF updates = <<>>
                  THEN [Frame("flush", "done") EXCEPT
                           !.result = "empty", !.group_id = j.data]
                  ELSE [Frame("flush", "item") EXCEPT
                           !.photos = Photos(updates), !.group_id = j.data,
                           !.user = updates[1].user,
                           !.caption = FirstCaption(updates),
                           !.calls = <<Call("send_action", 0, NoSha, 200)>>])
    /\ UNCHANGED <<pureVars, ALLOWED_USERS, job_queue, nextJob, nextUpdate, files,
                   nextSha, assets>>

\* Faulty variant of the caption test: the caption is used even when blank.
BlankCaptionKept(caption, cdn_urls) == [text |-> caption, images |-> cdn_urls]

\* "\n\n".join(...) and the caption test: the body is the caption (when it is
\* not blank) followed by one image reference per url, in list order.
ComposeBody(caption, cdn_urls) ==
    [text |-> IF Truthy(Strip(caption)) THEN caption ELSE <<>>,
     images |-> cdn_urls]

\* Faulty variant of the error handling: the failed photo is skipped and the
\* loop goes on with the next one.
SkipItem(frame, call) ==
    LET k == Len(frame.cdn_urls) + 1
        rest == SubSeq(frame.photos, 1, k - 1)
                    \o SubSeq(frame.photos, k + 1, Len(frame.photos))
    IN  [frame EXCEPT !.calls = Append(@, call), !.photos = rest,
                      !.pc = IF Len(rest) = Len(frame.cdn_urls) THEN "get" ELSE "item"]

\* The except clause around the upload loop and the publish: the batch ends
\* there with one failure notice.
AbortBatch(frame, call) == Failed(frame, call)

\* cdn_urls.append(url)
AppendUrl(cdn_urls, url) == Append(cdn_urls, url)

\* bytes(await file.download_as_bytearray()): the photo file as the chat
\* holds it.  encoded_by names who produced the bytes.
Downloaded(photo) == [photo |-> photo, encoded_by |-> "chat"]

\* image_service.compress_image: on either branch the result is a JPEG that
\* this function encoded (quality 95 below the threshold, the adaptive loop at
\* or above it).
CompressImageResult(image_bytes) ==
    [image_bytes EXCEPT !.encoded_by = "compress_image"]

\* image_service.upload_image up to its request: the handlers pass no ext, so
\* ext is ".jpg", the HEIC branch is not taken, and image_bytes goes to
\* github.upload_image as it came in.
UploadImage(image_bytes) == image_bytes

\* GitHubService.upload_image: the PUT of the asset as the coroutine saw it;
\* data is the content that was sent.
PutAsset(image_data, status) ==
    [op |-> "upload", arg |-> image_data.photo, sha |-> NoSha,
     status |-> status, data |-> image_data]

\* One round of the upload loop (the whole of it for a single photo): the
\* photo is downloaded from the chat and uploaded by upload_image, which PUTs
\* it under a fresh name and returns its CDN url.  Either call may raise, which
\* ends the try block.  After the last photo the body is composed.
UploadItem(t) ==
    /\ t \in DOMAIN tasks
    /\ tasks[t].pc = "item"
    /\ LET f == tasks[t]
           photo == f.photos[Len(f.cdn_urls) + 1]
           done == Len(f.cdn_urls) + 1 = Len(f.photos)
           down == Call("download", photo, NoSha, 200)
       IN  \/ /\ Step(t, AbortBatch(f, Call("download", photo, NoSha, 0)))
              /\ UNCHANGED assets
           \/ \E status \in {200} \cup FailStatuses :
                LET call == PutAsset(UploadImage(Downloaded(photo)), status)
                    urls == AppendUrl(f.cdn_urls, photo)
                IN  /\ assets' = IF status = 200 THEN assets \cup {photo} ELSE assets
                    /\ Step(t,
                         IF RequestRaises(status)
                         THEN AbortBatch([f EXCEPT !.calls = Append(@, down)], call)
                         ELSE [f EXCEPT
                                 !.calls = @ \o <<down, call>>,
                                 !.cdn_urls = urls,
                                 !.pc = IF done THEN "get" ELSE "item",
                                 !.caption = IF done THEN <<>> ELSE @,
                                 !.body = IF done
                                          THEN ComposeBody(f.caption, urls)
                                          ELSE @])
    /\ UNCHANGED <<pureVars, ALLOWED_USERS, _media_groups, job_queue, jobs, nextJob,
                   nextUpdate, files, nextSha>>


FileNames == {<<"a", ".", "m", "d">>, <<"A", ".", "M", "D">>,
              <<"a", ".", "t", "x", "t">>, <<>>}

\* Document.file_size as the chat reports it; 0 stands for None (not reported).
FileSizes == {0, MAX_DOC_SIZE, MAX_DOC_SIZE + 1}

\* The bytes of the document, which the bot sees only once it has downloaded
\* them.
Contents == {<<>>, <<"BOM">>, <<" ", "\n">>, <<"BOM", "x">>, <<"x">>}

\* bytes(raw).decode("utf-8-sig"): a leading byte-order mark is dropped.
DecodeUtf8Sig(raw) == IF raw # <<>> /\ Head(raw) = "BOM" THEN Tail(raw) ELSE raw

\* file_name.lower().endswith(".md")
IsMarkdownName(file_name) == EndsWith(Lower(file_name), <<".", "m", "d">>)

\* doc.file_size and doc.file_size > 5 * 1024 * 1024
TooLarge(file_size) == file_size # 0 /\ file_size > MAX_DOC_SIZE

\* document_handler up to its first await that leaves it suspended: the name
\* and the reported size are checked, then the download starts.
DocumentHandler ==
    /\ CanReceive
    /\ \E user \in Users, file_name \in FileNames, file_size \in FileSizes :
         LET t == HandlerId(nextUpdate + 1)
             doc == [file_name |-> file_name, file_size |-> file_size]
         IN  Spawn(t, From(user,
                 IF ~Authorized(user) THEN Refused("document")
                 ELSE IF ~IsMarkdownName(file_name)
                 THEN [Frame("document", "done") EXCEPT
                          !.doc = doc,
                          !.result = "rejected", !.replies = <<"only_md">>]
                 ELSE IF TooLarge(file_size)
                 THEN [Frame("document", "done") EXCEPT
                          !.doc = doc,
                          !.result = "rejected", !.replies = <<"too_large">>]
                 ELSE [Frame("document", "download") EXCEPT
                          !.doc = doc,
                          !.calls = <<Call("send_action", 0, NoSha, 200)>>]))
    /\ nextUpdate' = nextUpdate + 1
    /\ UNCHANGED <<pureVars, ALLOWED_USERS, _media_groups, job_queue, jobs, nextJob,
                   files, nextSha, assets>>

\* document_handler from the download to the call of publish_markdown_file:
\* the file is fetched and decoded, and an empty document is turned away.
DocumentDownload(t) ==
    /\ t \in DOMAIN tasks
    /\ tasks[t].pc = "download"
    /\ LET f == tasks[t]
       IN  \/ Step(t, Failed(f, Call("download", 0, NoSha, 0)))
           \/ \E raw \in Contents :
                LET content == DecodeUtf8Sig(raw)
                IN  Step(t,
                  IF ~Truthy(Strip(content))
                  THEN [f EXCEPT !.pc = "done", !.result = "rejected",
                                 !.calls = Append(@, Call("download", 0, NoSha, 200)),
                                 !.replies = Append(@, "empty")]
                  ELSE [f EXCEPT !.pc = "get",
                                 !.calls = Append(@, Call("download", 0, NoSha, 200)),
                                 !.body = [text |-> content, images |-> <<>>]])
    /\ UNCHANGED <<pureVars, ALLOWED_USERS, _media_groups, job_queue, jobs, nextJob,
                   nextUpdate, files, nextSha, assets>>

\* delete_handler up to its first await that leaves it suspended.  The
\* argument names the path (0: no argument, which gets the usage text).
DeleteHandler ==
    /\ CanReceive
    /\ \E user \in Users, path \in Paths \cup {0} :
         LET t == HandlerId(nextUpdate + 1)
         IN  Spawn(t, From(user,
                 IF ~Authorized(user) THEN Refused("delete")
                 ELSE IF path = 0
                 THEN [Frame("delete", "done") EXCEPT
                          !.result = "usage", !.replies = <<"usage">>]
                 ELSE [Frame("delete", "dget") EXCEPT
                          !.file_path = path,
                          !.calls = <<Call("send_action", 0, NoSha, 200)>>]))
    /\ nextUpdate' = nextUpdate + 1
    /\ UNCHANGED <<pureVars, ALLOWED_USERS, _media_groups, job_queue, jobs, nextJob,
                   files, nextSha, assets>>

\* delete_file up to the answer of get_file: no file raises FileNotFoundError,
\* which delete_handler answers with "文件不存在".
DeleteGet(t) ==
    /\ t \in DOMAIN tasks
    /\ tasks[t].pc = "dget"
    /\ LET p == tasks[t].file_path
       IN  \E status \in {StoreGetStatus(p)} \cup FailStatuses :
             LET call == Call("get", p, IF status = 200 THEN files[p] ELSE NoSha, status)
                 existing == GetFileResult(status, files[p])
             IN  Step(t,
                     IF GetFileRaises(status)
                     THEN Failed(tasks[t], call)
                     ELSE IF existing = None
                     THEN [tasks[t] EXCEPT
                              !.pc = "done", !.result = "not_found",
                              !.calls = Append(@, call),
                              !.replies = Append(@, "not_exist")]
                     ELSE [tasks[t] EXCEPT
                              !.pc = "ddel", !.existing = existing,
                              !.calls = Append(@, call)])
    /\ UNCHANGED <<pureVars, ALLOWED_USERS, _media_groups, job_queue, jobs, nextJob,
                   nextUpdate, files, nextSha, assets>>

\* Faulty variant of the DELETE body: no sha is sent.
DeleteShaNone(existing) == NoSha

\* The sha delete_file sends: existing["sha"]
DeleteSha(existing) == existing.sha

\* delete_file's DELETE request and delete_handler's reply.
DeleteRequest(t) ==
    /\ t \in DOMAIN tasks
    /\ tasks[t].pc = "ddel"
    /\ LET p == tasks[t].file_path
           sha == DeleteSha(tasks[t].existing)
       IN  \E status \in {StoreDeleteStatus(p, sha)} \cup WriteFailStatuses :
             LET call == Call("delete", p, sha, status)
             IN  /\ StoreAfterDelete(p, status)
                 /\ Step(t,
                        IF RequestRaises(status)
                        THEN Failed(tasks[t], call)
                        ELSE [tasks[t] EXCEPT
                                 !.pc = "done", !.result = "deleted",
                                 !.calls = Append(@, call),
                                 !.replies = Append(@, "deleted")])
    /\ UNCHANGED <<pureVars, ALLOWED_USERS, _media_groups, job_queue, jobs, nextJob,
                   nextUpdate, assets>>

\* ---------------------------------------------------------- image_service.py
\* The length of an encoded image, in bytes: any of these may come out of the
\* encoder, at any quality.
SizeStep == MAX_FILE_SIZE \div 20

Sizes == {k * SizeStep : k \in 1..MaxSizeSteps}

\* The lengths of the images handed to compress_image: below and at the
\* threshold of smart compression.
InputSizes == {IMAGE_COMPRESSION_THRESHOLD - 1, IMAGE_COMPRESSION_THRESHOLD}

\* The frame of compress_image / _smart_compress: the quality of the last
\* encode, the length of data and prev_size, and the encodes made so far.
CompressFrame(pc, quality, data, prev_size, encodes) ==
    [pc |-> pc, quality |-> quality, data |-> data, prev_size |-> prev_size,
     encodes |-> encodes]

NotCalled == CompressFrame("idle", 0, 0, 0, <<>>)

\* Faulty variant of the loop test: the floor is 0.
ContinuesAboveZero(data, quality) == data > MAX_FILE_SIZE /\ quality > 0

\* while len(data) > target and quality > 10
LoopContinues(data, quality) == data > MAX_FILE_SIZE /\ quality > 10

\* quality -= 10
NextQuality(quality) == quality - 10

\* Faulty variant of the 5% test: a new size of exactly 95% ends the loop too.
GainAtMostFivePercent(data, prev_size) == data * 100 >= prev_size * 95

\* len(data) > int(prev_size * 0.95)
TooLittleGain(data, prev_size) == data > (prev_size * 95) \div 100

\* compress_image up to the loop of _smart_compress: a small image is
\* re-encoded once at quality 95 and returned; a large one is (resized and)
\* encoded at the configured quality.
CompressImage ==
    /\ compress.pc = "idle"
    /\ \E len \in InputSizes, size \in Sizes :
         compress' =
             IF len < IMAGE_COMPRESSION_THRESHOLD
             THEN CompressFrame("returned", 95, size, 0, <<95>>)
             ELSE CompressFrame("loop", IMAGE_QUALITY, size, 0, <<IMAGE_QUALITY>>)
    /\ UNCHANGED <<botVars, resize, namer, assemble, lister, clock, publish>>

\* One round of the loop of _smart_compress.
Reencode ==
    /\ compress.pc = "loop"
    /\ LoopContinues(compress.data, compress.quality)
    /\ \E size \in Sizes :
         LET prev_size == compress.data
             quality == NextQuality(compress.quality)
         IN  compress' = CompressFrame(
                 IF TooLittleGain(size, prev_size) THEN "returned" ELSE "loop",
                 quality, size, prev_size, Append(compress.encodes, quality))
    /\ UNCHANGED <<botVars, resize, namer, assemble, lister, clock, publish>>

\* The loop's test fails: return data.
CompressReturn ==
    /\ compress.pc = "loop"
    /\ ~LoopContinues(compress.data, compress.quality)
    /\ compress' = [compress EXCEPT !.pc = "returned"]
    /\ UNCHANGED <<botVars, resize, namer, assemble, lister, clock, publish>>

\* The sizes (w, h) of the images handed to _smart_compress.
ImageWidths == {1, 22, 1920, 1921, 2410, 3840, 4000, 6000}

ImageHeights == {1, 1080, 1081, 1205, 1584, 2160, 3000, 4000}

\* ratio = m / d is a double, and so is x * ratio.  Of the products the sizes
\* above lead to, these fall just below the exact quotient, which is a whole
\* number: 22 * (1080 / 1584) is 14.999999999999998 and 1205 * (1920 / 2410)
\* is 959.9999999999999.  Every other product truncates to the exact
\* quotient's integer part.
ShortProducts == {<<22, 1080, 1584>>, <<1205, 1920, 2410>>}

\* int(x * ratio) with ratio = m / d
ScaleInt(x, m, d) ==
    IF <<x, m, d>> \in ShortProducts THEN (x * m) \div d - 1 ELSE (x * m) \div d

\* The size after the two tests of the resize step: the width is brought to
\* max_w first, then the height (as it is by then) to max_h.
ResizedSize(w, h) ==
    LET w1 == IF w > MAX_IMAGE_WIDTH THEN MAX_IMAGE_WIDTH ELSE w
        h1 == IF w > MAX_IMAGE_WIDTH THEN ScaleInt(h, MAX_IMAGE_WIDTH, w) ELSE h
        w2 == IF h1 > MAX_IMAGE_HEIGHT THEN ScaleInt(w1, MAX_IMAGE_HEIGHT, h1) ELSE w1
        h2 == IF h1 > MAX_IMAGE_HEIGHT THEN MAX_IMAGE_HEIGHT ELSE h1
    IN  <<w2, h2>>

NotResized == [pc |-> "idle", size |-> <<0, 0>>, result |-> <<0, 0>>]

\* The resize step of _smart_compress on an image of the given size.
Resize ==
    /\ resize.pc = "start"
    /\ resize' = [resize EXCEPT
                     !.pc = "done",
                     !.result = ResizedSize(resize.size[1], resize.size[2])]
    /\ UNCHANGED <<botVars, compress, namer, assemble, lister, clock, publish>>

\* ------------------------------------------------------- content_service.py
\* A text is the sequence of its characters' code points.

\* The least member of a non-empty set of positions.
Least(S) == CHOOSE x \in S : \A y \in S : x <= y

\* The greatest member of a non-empty set of positions.
Greatest(S) == CHOOSE x \in S : \A y \in S : x >= y

\* Whether text s holds the characters p from position i on.
StartsAt(s, i, p) ==
    /\ i >= 1
    /\ i + Len(p) - 1 <= Len(s)
    /\ SubSeq(s, i, i + Len(p) - 1) = p

\* The first position from i on where p starts, 0 when there is none.
FirstAt(s, i, p) ==
    LET at == {j \in i..Len(s) : StartsAt(s, j, p)}
    IN  IF at = {} THEN 0 ELSE Least(at)

\* The first position from i on that holds a newline, Len(s) + 1 when none does.
LineEnd(s, i) ==
    LET at == {j \in i..Len(s) : s[j] = 10}
    IN  IF at = {} THEN Len(s) + 1 ELSE Least(at)

\* The whitespace of str: what \s matches in a str pattern and what
\* str.strip() removes.
Spaces ==
    (9..13) \cup (28..32) \cup {133, 160, 5760} \cup (8192..8202)
        \cup {8232, 8233, 8239, 8287, 12288}

\* \s+
_RE_WHITESPACE(ch) == ch \in Spaces

\* [#*`_~\->|/]
_RE_MD_SYMBOL(ch) == ch \in {35, 42, 96, 95, 126, 45, 62, 124, 47}

\* [一-龥a-zA-Z] with digits added
AlphaNumeric(ch) ==
    ch \in 19968..40869 \/ ch \in 97..122 \/ ch \in 65..90 \/ ch \in 48..57

\* [一-龥a-zA-Z]
_RE_CJK_ALPHA(ch) == ch \in 19968..40869 \/ ch \in 97..122 \/ ch \in 65..90

RECURSIVE SkipNewlines(_, _)
\* \n* from position i: the first position that holds no newline
SkipNewlines(s, i) ==
    IF i <= Len(s) /\ s[i] = 10 THEN SkipNewlines(s, i + 1) ELSE i

\* ^---[\s\S]*?---\n* : the length of the match at the start of s, 0 when
\* there is none.  The lazy middle ends at the first --- after the opening one.
_RE_FRONTMATTER(s) ==
    LET close == FirstAt(s, 4, <<45, 45, 45>>)
    IN  IF ~StartsAt(s, 1, <<45, 45, 45>>) \/ close = 0
        THEN 0
        ELSE SkipNewlines(s, close + 3) - 1

\* !\[.*?\]\(.*?\) at position i: the last position of the match, 0 when there
\* is none.  A dot matches no newline; each lazy part ends at the first place
\* where what follows it can start.
_RE_MD_IMAGE(s, i) ==
    IF ~StartsAt(s, i, <<33, 91>>) THEN 0
    ELSE LET j == FirstAt(s, i + 2, <<93, 40>>)
         IN  IF j = 0 \/ j > LineEnd(s, i + 2) THEN 0
             ELSE LET k == FirstAt(s, j + 2, <<41>>)
                  IN  IF k = 0 \/ k > LineEnd(s, j + 2) THEN 0 ELSE k

\* \[([^\]]+)\]\([^\)]+\) at position i: <<last position of the anchor text,
\* last position of the match>>, <<0, 0>> when there is none.
_RE_MD_LINK(s, i) ==
    IF ~StartsAt(s, i, <<91>>) THEN <<0, 0>>
    ELSE LET j == FirstAt(s, i + 1, <<93>>)
         IN  IF j < i + 2 \/ ~StartsAt(s, j + 1, <<40>>) THEN <<0, 0>>
             ELSE LET k == FirstAt(s, j + 2, <<41>>)
                  IN  IF k < j + 3 THEN <<0, 0>> ELSE <<j - 1, k>>

RECURSIVE SubImages(_, _)
\* _RE_MD_IMAGE.sub("", s), from position i on
SubImages(s, i) ==
    IF i > Len(s) THEN <<>>
    ELSE IF _RE_MD_IMAGE(s, i) = 0 THEN <<s[i]>> \o SubImages(s, i + 1)
    ELSE SubImages(s, _RE_MD_IMAGE(s, i) + 1)

RECURSIVE SubLinks(_, _)
\* _RE_MD_LINK.sub(r"\1", s), from position i on
SubLinks(s, i) ==
    IF i > Len(s) THEN <<>>
    ELSE IF _RE_MD_LINK(s, i) = <<0, 0>> THEN <<s[i]>> \o SubLinks(s, i + 1)
    ELSE SubSeq(s, i + 1, _RE_MD_LINK(s, i)[1]) \o SubLinks(s, _RE_MD_LINK(s, i)[2] + 1)

\* The plain text the slug is taken from: the title when there is one, else the
\* content without its frontmatter and markdown; whitespace removed from either.
PlainText(content, title) ==
    LET body == SubSeq(content, _RE_FRONTMATTER(content) + 1, Len(content))
        text == SelectSeq(SubLinks(SubImages(body, 1), 1),
                          LAMBDA ch : ~_RE_MD_SYMBOL(ch))
        plain == IF title # <<>> THEN title ELSE text
    IN  SelectSeq(plain, LAMBDA ch : ~_RE_WHITESPACE(ch))

RECURSIVE First4(_, _, _, _)
\* the loop over plain: first4 and count after the characters from position i on
First4(plain, i, first4, count) ==
    IF i > Len(plain) \/ count >= 4 THEN first4
    ELSE IF _RE_CJK_ALPHA(plain[i])
         THEN First4(plain, i + 1, Append(first4, plain[i]), count + 1)
         ELSE First4(plain, i + 1, first4, count)

\* The texts of up to MaxTextLen characters over: 1 ! U+4F60 w space -
TextChars == {49, 33, 20320, 119, 32, 45}

ShortTexts == UNION {[1..n -> TextChars] : n \in 0..MaxTextLen}

\* Texts with markdown, frontmatter, and the characters at the ends of the
\* ranges of _RE_CJK_ALPHA.
LongTexts == {
    \* 123!!U+4F60U+597D world
    <<49, 50, 51, 33, 33, 20320, 22909, 32, 119, 111, 114, 108, 100>>,
    \* Hello U+4E16U+754C
    <<72, 101, 108, 108, 111, 32, 19990, 30028>>,
    \* ![alt](http://x/y.png)text
    <<33, 91, 97, 108, 116, 93, 40, 104, 116, 116, 112, 58, 47, 47, 120, 47, 121, 46, 112, 110, 103, 41, 116, 101, 120, 116>>,
    \* [link](http://u)ab
    <<91, 108, 105, 110, 107, 93, 40, 104, 116, 116, 112, 58, 47, 47, 117, 41, 97, 98>>,
    \* ---\npubDate: "2024"\n---\n\nHi there
    <<45, 45, 45, 10, 112, 117, 98, 68, 97, 116, 101, 58, 32, 34, 50, 48, 50, 52, 34, 10, 45, 45, 45, 10, 10, 72, 105, 32, 116, 104, 101, 114, 101>>,
    \* # U+6807U+9898 *b*
    <<35, 32, 26631, 39064, 32, 42, 98, 42>>,
    \* U+4DFFU+4E00U+9FA5U+9FA6
    <<19967, 19968, 40869, 40870>>,
    \* @AZ[`az{
    <<64, 65, 90, 91, 96, 97, 122, 123>>,
    \* aU+3000b\tc\nd e
    <<97, 12288, 98, 9, 99, 10, 100, 32, 101>>,
    \* ![a\nb](c)
    <<33, 91, 97, 10, 98, 93, 40, 99, 41>>,
    \* [](u)x
    <<91, 93, 40, 117, 41, 120>>,
    \* ![a](b
    <<33, 91, 97, 93, 40, 98>>,
    \* U+FF21U+00E99
    <<65313, 233, 57>>,
    \* ab![cd](ef)gh[ij](kl)mn
    <<97, 98, 33, 91, 99, 100, 93, 40, 101, 102, 41, 103, 104, 91, 105, 106, 93, 40, 107, 108, 41, 109, 110>>,
    \* ------ab
    <<45, 45, 45, 45, 45, 45, 97, 98>>,
    \* ---ab
    <<45, 45, 45, 97, 98>>,
    \*  ---\nt: 1\n---\nab
    <<32, 45, 45, 45, 10, 116, 58, 32, 49, 10, 45, 45, 45, 10, 97, 98>>,
    \* ---\na---\n\n\nbcdefg
    <<45, 45, 45, 10, 97, 45, 45, 45, 10, 10, 10, 98, 99, 100, 101, 102, 103>>,
    \* ![a](b)](c)de
    <<33, 91, 97, 93, 40, 98, 41, 93, 40, 99, 41, 100, 101>>,
    \* [a]x(b)[c](d)e
    <<91, 97, 93, 120, 40, 98, 41, 91, 99, 93, 40, 100, 41, 101>>
}

NotNamed == [pc |-> "idle", content |-> <<>>, title |-> <<>>, plain |-> <<>>,
             first4 |-> <<>>, with_slug |-> FALSE]

\* generate_file_path(content, title): the plain text, the slug, and which of
\* the two path formats is returned.  A title of "" or None is <<>>.
GenerateFilePath ==
    /\ namer.pc = "start"
    /\ LET plain == PlainText(namer.content, namer.title)
           first4 == First4(plain, 1, <<>>, 0)
       IN  namer' = [namer EXCEPT
                        !.pc = "done",
                        !.plain = plain,
                        !.first4 = first4,
                        !.with_slug = (first4 # <<>>)]
    /\ UNCHANGED <<botVars, compress, resize, assemble, lister, clock, publish>>

\* str.splitlines(): the characters that end a line
LineBreak(ch) == ch \in {10, 11, 12, 13, 28, 29, 30, 133, 8232, 8233}

RECURSIVE SplitLines(_, _, _)
\* s.splitlines() from position i on, line being the line read so far; \r\n
\* ends a line once, and no empty line follows the last line break.
SplitLines(s, i, line) ==
    IF i > Len(s) THEN (IF line = <<>> THEN <<>> ELSE <<line>>)
    ELSE IF LineBreak(s[i])
         THEN <<line>> \o SplitLines(s, IF s[i] = 13 /\ i < Len(s) /\ s[i + 1] = 10
                                          THEN i + 2 ELSE i + 1, <<>>)
         ELSE SplitLines(s, i + 1, Append(line, s[i]))

\* s.strip(...) : s without its leading and trailing characters of drop
StripOf(s, drop) ==
    LET keep == {i \in 1..Len(s) : s[i] \notin drop}
    IN  IF keep = {} THEN <<>>
        ELSE SubSeq(s, Least(keep), Greatest(keep))

\* A dict of fields, in insertion order: a sequence of <<key, value>>.
Keys(fields) == {fields[i][1] : i \in DOMAIN fields}

\* fields[key] = val : a key already there keeps its place
SetItem(fields, key, val) ==
    IF key \in Keys(fields)
    THEN [i \in DOMAIN fields |-> IF fields[i][1] = key THEN <<key, val>> ELSE fields[i]]
    ELSE Append(fields, <<key, val>>)

\* the key is set anew, at the end
Overwrite(fields, key, val) ==
    Append(SelectSeq(fields, LAMBDA f : f[1] # key), <<key, val>>)

\* fields.setdefault(key, val)
SetDefault(fields, key, val) ==
    IF key \in Keys(fields) THEN fields ELSE Append(fields, <<key, val>>)

RECURSIVE ParseLines(_, _, _)
\* the loop of parse_frontmatter over the lines of the block, from line i on
ParseLines(lines, i, fields) ==
    IF i > Len(lines) THEN fields
    ELSE LET line == StripOf(lines[i], Spaces)
             colon == FirstAt(line, 1, <<58>>)
             key == SubSeq(line, 1, colon - 1)
             val == StripOf(StripOf(StripOf(SubSeq(line, colon + 1, Len(line)),
                                            Spaces),
                                    {34}),
                            {39})
         IN  IF line = <<45, 45, 45>> \/ line = <<>> \/ colon = 0
             THEN ParseLines(lines, i + 1, fields)
             ELSE ParseLines(lines, i + 1,
                             SetItem(fields, StripOf(key, Spaces), val))

\* parse_frontmatter(content): whether a block was matched, its fields, and
\* the content after the block.
ParseFrontmatter(content) ==
    LET end == _RE_FRONTMATTER(content)
    IN  IF end = 0
        THEN [found |-> FALSE, fields |-> <<>>, body |-> content]
        ELSE [found |-> TRUE,
              fields |-> ParseLines(SplitLines(SubSeq(content, 1, end), 1, <<>>), 1, <<>>),
              body |-> SubSeq(content, end + 1, Len(content))]

RECURSIVE FieldLines(_, _)
\* one line  k: "v"  per field, each with the newline that joins it to the next
FieldLines(fields, i) ==
    IF i > Len(fields) THEN <<>>
    ELSE fields[i][1] \o <<58, 32, 34>> \o fields[i][2] \o <<34, 10>>
             \o FieldLines(fields, i + 1)

\* "\n".join(fm_lines)
Serialize(fields) == <<45, 45, 45, 10>> \o FieldLines(fields, 1) \o <<45, 45, 45>>

\* "title" and "pubDate"
TitleKey == <<116, 105, 116, 108, 101>>

PubDateKey == <<112, 117, 98, 68, 97, 116, 101>>

\* date_str, in the format %Y-%m-%d %H:%M:%S: 2024-03-01 09:15:30
DateStr == <<50, 48, 50, 52, 45, 48, 51, 45, 48, 49, 32, 48, 57, 58, 49, 53, 58, 51, 48>>

\* The pieces the documents of the model are made of.
Chunks == {
    \* ---\n
    <<45, 45, 45, 10>>,
    \* ---
    <<45, 45, 45>>,
    \* title: "Old"\n
    <<116, 105, 116, 108, 101, 58, 32, 34, 79, 108, 100, 34, 10>>,
    \* tags: 'x'\n
    <<116, 97, 103, 115, 58, 32, 39, 120, 39, 10>>,
    \* note\n
    <<110, 111, 116, 101, 10>>,
    \* \n
    <<10>>,
    \* pubDate: 2020
    <<112, 117, 98, 68, 97, 116, 101, 58, 32, 50, 48, 50, 48>>,
    \*  k : v:w \n
    <<32, 107, 32, 58, 32, 118, 58, 119, 32, 10>>,
    \* Hello
    <<72, 101, 108, 108, 111>>,
    \* title: B\n
    <<116, 105, 116, 108, 101, 58, 32, 66, 10>>
}

RECURSIVE Concat(_)
\* the pieces one after the other
Concat(pieces) == IF pieces = <<>> THEN <<>> ELSE Head(pieces) \o Concat(Tail(pieces))

\* The documents: up to MaxChunks pieces, one after the other.
Documents == {Concat(ps) : ps \in UNION {[1..n -> Chunks] : n \in 0..MaxChunks}}

\* The titles: file names without their .md
Titles == {
    \* New
    <<78, 101, 119>>,
    \* 'q'
    <<39, 113, 39>>
}

\* The fields written: the parsed ones with title and pubDate set where they
\* are missing, or, when no field was parsed, title and pubDate alone.
MergedFields(p, title) ==
    IF p.fields # <<>>
    THEN SetDefault(SetDefault(p.fields, TitleKey, title), PubDateKey, DateStr)
    ELSE <<<<TitleKey, title>>, <<PubDateKey, DateStr>>>>

\* the text after the block, whatever was parsed
RestAlways(p, body) == p.body

\* The body text written: the text after the block when a field was parsed,
\* else the whole input.
BodyText(p, body) == IF p.fields # <<>> THEN p.body ELSE body

NotAssembled == [pc |-> "idle", body |-> <<>>, title |-> <<>>, found |-> FALSE,
                 parsed |-> <<>>, rest |-> <<>>, fields |-> <<>>,
                 body_text |-> <<>>, output |-> <<>>]

\* assemble_content_with_title(body, title, pub_date): what parse_frontmatter
\* returned (found, parsed, rest), the fields and the body text that are
\* written, and the text returned.
AssembleContentWithTitle ==
    /\ assemble.pc = "start"
    /\ LET p == ParseFrontmatter(assemble.body)
           fields == MergedFields(p, assemble.title)
           body_text == BodyText(p, assemble.body)
       IN  assemble' = [assemble EXCEPT
                           !.pc = "done",
                           !.found = p.found,
                           !.parsed = p.fields,
                           !.rest = p.body,
                           !.fields = fields,
                           !.body_text = body_text,
                           !.output = Serialize(fields) \o <<10, 10>> \o body_text]
    /\ UNCHANGED <<botVars, compress, resize, namer, lister, clock, publish>>

\* --------------------------------- publish_content: frontmatter and path
\* Two decimal digits of n.
TwoDigits(n) == <<48 + ((n \div 10) % 10), 48 + (n % 10)>>

\* strftime("%Y-%m-%d") of the time t (seconds since 2024-03-01 00:00:00):
\* the days of March 2024.
DateOf(t) == <<50, 48, 50, 52, 45, 48, 51, 45>> \o TwoDigits(1 + t \div 86400)

\* strftime("%H%M%S"): hour, minute and second of the day
TimeOf(t) ==
    TwoDigits((t % 86400) \div 3600) \o TwoDigits((t % 3600) \div 60)
        \o TwoDigits(t % 60)

\* strftime("%Y-%m-%d %H:%M:%S")
DateTimeOf(t) ==
    LET hms == TimeOf(t)
    IN  DateOf(t) \o <<32>> \o SubSeq(hms, 1, 2) \o <<58>> \o SubSeq(hms, 3, 4)
            \o <<58>> \o SubSeq(hms, 5, 6)

\* generate_frontmatter: ---\npubDate: "<date_str>"\n---\n\n
GenerateFrontmatter(pub_date) ==
    <<45, 45, 45, 10, 112, 117, 98, 68, 97, 116, 101, 58, 32, 34>>
        \o DateTimeOf(pub_date) \o <<34, 10, 45, 45, 45, 10, 10>>

\* assemble_content: generate_frontmatter(pub_date) + body
AssembleContent(body, pub_date) == GenerateFrontmatter(pub_date) \o body

\* The two return statements of generate_file_path (content_type "essays"),
\* with timestamp = now.strftime("%H%M%S") + f"-{rnd}", rnd of three digits.
FilePath(date_prefix, first4, hms, rnd) ==
    <<115, 114, 99, 47, 99, 111, 110, 116, 101, 110, 116, 47, 101, 115, 115, 97,
      121, 115, 47>>
        \o date_prefix \o (IF first4 # <<>> THEN <<45>> \o first4 ELSE <<>>)
        \o <<45>> \o hms \o <<45, 48 + (rnd \div 100)>> \o TwoDigits(rnd % 100)
        \o <<46, 109, 100>>

\* Times the publish may start at: 09:15:29 and 23:59:58 of 2024-03-01.
ClockStarts == {33329, 86398}

\* The bodies of a text publish: texts text_handler lets through (not blank).
Bodies ==
    {b \in LongTexts \cup {t \in ShortTexts : Len(t) <= MaxBodyLen} :
        \E i \in 1..Len(b) : b[i] \notin Spaces}

NotPublishing == [pc |-> "idle", body |-> <<>>, pub_date |-> 0, now |-> 0,
                  full_content |-> <<>>, first4 |-> <<>>, file_path |-> <<>>]

\* The wall clock moves on by a second; it does so whenever it likes, also
\* between two statements of publish_content.
ClockTick ==
    /\ publish.pc \in {"start", "assembled"}
    /\ \E c \in ClockStarts : clock \in c..(c + MaxClockTicks - 1)
    /\ clock' = clock + 1
    /\ UNCHANGED <<botVars, compress, resize, namer, assemble, lister, publish>>

\* publish_content, line 116: full_content = assemble_content(body), whose
\* generate_frontmatter reads the clock (pub_date is None).
PublishAssemble ==
    /\ publish.pc = "start"
    /\ publish' = [publish EXCEPT
                      !.pc = "assembled",
                      !.pub_date = clock,
                      !.full_content = AssembleContent(publish.body, clock)]
    /\ UNCHANGED <<botVars, compress, resize, namer, assemble, lister, clock>>

\* publish_content, line 117: file_path = generate_file_path(full_content),
\* which reads the clock (now is None), draws the random suffix (the ends of
\* randint's range and one value between) and takes the slug from full_content.
PublishGeneratePath ==
    /\ publish.pc = "assembled"
    /\ \E rnd \in {100, 555, 999} :
         LET first4 == First4(PlainText(publish.full_content, <<>>), 1, <<>>, 0)
         IN  publish' = [publish EXCEPT
                            !.pc = "named",
                            !.now = clock,
                            !.first4 = first4,
                            !.file_path = FilePath(DateOf(clock), first4,
                                                   TimeOf(clock), rnd)]
    /\ UNCHANGED <<botVars, compress, resize, namer, assemble, lister, clock>>

\* ------------------------------------------------- listing (/list [N])
\* Whether every character of a non-empty text is an ASCII digit.
IsDigits(text) == text # <<>> /\ \A i \in 1..Len(text) : text[i] \in 48..57

RECURSIVE DigitsValue(_, _, _)
\* the number a text of digits stands for, from position i on
DigitsValue(text, i, acc) ==
    IF i > Len(text) THEN acc
    ELSE DigitsValue(text, i + 1, acc * 10 + (text[i] - 48))

\* int(text) for a text of sign and ASCII digits: the value, or a ValueError
\* (ok = FALSE) when the text is no number.
ParseInt(text) ==
    LET signed == text # <<>> /\ text[1] \in {43, 45}
        digits == IF signed THEN Tail(text) ELSE text
    IN  IF ~IsDigits(digits) THEN [ok |-> FALSE, value |-> 0]
        ELSE [ok |-> TRUE,
              value |-> IF signed /\ text[1] = 45
                        THEN 0 - DigitsValue(digits, 1, 0)
                        ELSE DigitsValue(digits, 1, 0)]

\* list_handler's limit: the default, or min(int(args[0]), MAX_LIMIT) when
\* there is an argument and it is a number.
Limit(args) ==
    IF args = <<>> \/ ~ParseInt(args[1]).ok THEN DEFAULT_LIMIT
    ELSE IF ParseInt(args[1]).value < MAX_LIMIT THEN ParseInt(args[1]).value ELSE MAX_LIMIT

\* name.endswith(".md")
IsMdFile(name) == StartsAt(name, Len(name) - 2, <<46, 109, 100>>)

\* a < b for two str: at the first position where they differ, or by length
Less(a, b) ==
    \E k \in 0..Len(a) :
        /\ k <= Len(b)
        /\ SubSeq(a, 1, k) = SubSeq(b, 1, k)
        /\ IF k = Len(a) THEN k < Len(b) ELSE k < Len(b) /\ a[k + 1] < b[k + 1]

RECURSIVE InsertDesc(_, _)
\* x put into a list that is in descending order, before the first smaller name
InsertDesc(x, sorted) ==
    IF sorted = <<>> THEN <<x>>
    ELSE IF Less(Head(sorted), x) THEN <<x>> \o sorted
    ELSE <<Head(sorted)>> \o InsertDesc(x, Tail(sorted))

RECURSIVE SortDesc(_)
\* md_files.sort(key=name, reverse=True); the names of a directory are distinct
SortDesc(list) ==
    IF list = <<>> THEN <<>> ELSE InsertDesc(Head(list), SortDesc(Tail(list)))

\* list[:limit]: the first limit entries, and for a negative limit all but the
\* last -limit entries
Slice(list, limit) ==
    LET n == Len(list)
        stop == IF limit >= 0 THEN (IF limit < n THEN limit ELSE n)
                ELSE (IF n + limit > 0 THEN n + limit ELSE 0)
    IN  SubSeq(list, 1, stop)

\* list_essays(limit) on the entries the store returned, each taken by its name
ListEssays(items, limit) == Slice(SortDesc(SelectSeq(items, IsMdFile)), limit)

\* The characters of an argument of /list:  - 0 1 3 4 x
ArgChars == {45, 48, 49, 51, 52, 120}

\* context.args: no argument, or one of up to MaxArgLen characters
ListArgs == {<<>>} \cup {<<a>> : a \in UNION {[1..n -> ArgChars] : n \in 1..MaxArgLen}}

\* The names a content directory may hold.
Names == {
    \* a.md
    <<97, 46, 109, 100>>,
    \* b.md
    <<98, 46, 109, 100>>,
    \* ab.md
    <<97, 98, 46, 109, 100>>,
    \* c.txt
    <<99, 46, 116, 120, 116>>,
    \* d.MD
    <<100, 46, 77, 68>>
}

\* The directories: up to MaxEntries entries with distinct names, in any order.
Directories ==
    {d \in UNION {[1..n -> Names] : n \in 0..MaxEntries} :
        \A i, j \in DOMAIN d : i # j => d[i] # d[j]}

NotListed == [pc |-> "idle", args |-> <<>>, items |-> <<>>, limit |-> 0,
              essays |-> <<>>]

\* The limit list_handler takes from its arguments, and list_essays(limit) on
\* the entries of the directory.
ListCall ==
    /\ lister.pc = "start"
    /\ lister' = [lister EXCEPT
                     !.pc = "done",
                     !.limit = Limit(lister.args),
                     !.essays = ListEssays(lister.items, Limit(lister.args))]
    /\ UNCHANGED <<botVars, compress, resize, namer, assemble, clock, publish>>

\* The name of the file at a content path: every path generate_file_path
\* returns ends in .md, and path p is named p.md here (1.md, 2.md, ...).
PathName(p) == <<48 + p, 46, 109, 100>>

RECURSIVE Listing(_, _)
\* GET contents/src/content/essays: the entries of the files there are, from
\* path p on
Listing(content, p) ==
    IF p > NumPaths THEN <<>>
    ELSE (IF content[p] # NoSha THEN <<PathName(p)>> ELSE <<>>) \o Listing(content, p + 1)

\* list_handler up to its first await that leaves it suspended: the limit is
\* taken from the arguments, then the listing starts.
ListHandler ==
    /\ CanReceive
    /\ \E user \in Users, args \in ListArgs :
         LET t == HandlerId(nextUpdate + 1)
         IN  Spawn(t, From(user,
                 IF ~Authorized(user) THEN Refused("list")
                 ELSE [Frame("list", "list") EXCEPT
                          !.limit = Limit(args),
                          !.calls = <<Call("send_action", 0, NoSha, 200)>>]))
    /\ nextUpdate' = nextUpdate + 1
    /\ UNCHANGED <<pureVars, ALLOWED_USERS, _media_groups, job_queue, jobs, nextJob,
                   files, nextSha, assets>>

\* list_essays and list_handler's reply: the request may fail, which the
\* handler answers with a failure notice; no essay gets "暂无 Essay".
ListRequest(t) ==
    /\ t \in DOMAIN tasks
    /\ tasks[t].pc = "list"
    /\ \E status \in {200} \cup FailStatuses :
         LET call == Call("list", 0, NoSha, status)
             essays == ListEssays(Listing(files, 1), tasks[t].limit)
         IN  Step(t,
                 IF RequestRaises(status)
                 THEN Failed(tasks[t], call)
                 ELSE [tasks[t] EXCEPT
                          !.pc = "done",
                          !.essays = essays,
                          !.result = IF essays = <<>> THEN "none" ELSE "listed",
                          !.calls = Append(@, call),
                          !.replies = Append(@, IF essays = <<>> THEN "none" ELSE "listed")])
    /\ UNCHANGED <<pureVars, ALLOWED_USERS, _media_groups, job_queue, jobs, nextJob,
                   nextUpdate, files, nextSha, assets>>

\* ----------------------------------------------------------- specification
\* After main(): the allowlist and the job queue are what the environment
\* provides, the collector is empty, no job is pending, and the content
\* directory holds no file yet.
Init ==
    /\ ALLOWED_USERS \in {{}, {Owner}}
    /\ job_queue \in BOOLEAN
    /\ _media_groups = <<>>
    /\ jobs = {}
    /\ nextJob = 0
    /\ nextUpdate = 0
    /\ tasks = <<>>
    /\ files = [p \in Paths |-> NoSha]
    /\ nextSha = 1
    /\ assets = {}
    /\ compress = NotCalled
    /\ resize = NotResized
    /\ namer = NotNamed
    /\ assemble = NotAssembled
    /\ lister = NotListed
    /\ clock = 0
    /\ publish = NotPublishing

Next ==
    \/ TextHandler
    \/ DocumentHandler
    \/ PhotoHandler
    \/ DeleteHandler
    \/ ListHandler
    \/ Tick
    \/ \E j \in jobs : ProcessMediaGroup(j)
    \/ \E t \in DOMAIN tasks : UploadItem(t)
    \/ \E t \in DOMAIN tasks : DocumentDownload(t)
    \/ \E t \in DOMAIN tasks : PublishGet(t)
    \/ \E t \in DOMAIN tasks : PublishPut(t)
    \/ \E t \in DOMAIN tasks : DeleteGet(t)
    \/ \E t \in DOMAIN tasks : DeleteRequest(t)
    \/ \E t \in DOMAIN tasks : ListRequest(t)

Spec == Init /\ [][Next]_vars

\* One call of compress_image, on its own: the function is synchronous and
\* touches nothing of the bot's state.  Once called it runs on until it
\* returns.
InitCompress ==
    /\ ALLOWED_USERS = {Owner}
    /\ job_queue = TRUE
    /\ _media_groups = <<>>
    /\ jobs = {}
    /\ nextJob = 0
    /\ nextUpdate = 0
    /\ tasks = <<>>
    /\ files = [p \in Paths |-> NoSha]
    /\ nextSha = 1
    /\ assets = {}
    /\ compress = NotCalled
    /\ resize = NotResized
    /\ namer = NotNamed
    /\ assemble = NotAssembled
    /\ lister = NotListed
    /\ clock = 0
    /\ publish = NotPublishing

NextCompress ==
    \/ CompressImage
    \/ Reencode
    \/ CompressReturn

SpecCompress == InitCompress /\ [][NextCompress]_vars /\ WF_vars(NextCompress)

\* The bot at rest: what every function checked on its own starts from.
BotAtRest ==
    /\ ALLOWED_USERS = {Owner}
    /\ job_queue = TRUE
    /\ _media_groups = <<>>
    /\ jobs = {}
    /\ nextJob = 0
    /\ nextUpdate = 0
    /\ tasks = <<>>
    /\ files = [p \in Paths |-> NoSha]
    /\ nextSha = 1
    /\ assets = {}

\* The resize step on its own, for every size of the model.
InitResize ==
    /\ BotAtRest
    /\ clock = 0
    /\ publish = NotPublishing
    /\ compress = NotCalled
    /\ namer = NotNamed
    /\ assemble = NotAssembled
    /\ lister = NotListed
    /\ \E w \in ImageWidths, h \in ImageHeights :
          resize = [pc |-> "start", size |-> <<w, h>>, result |-> <<0, 0>>]

NextResize == Resize

SpecResize == InitResize /\ [][NextResize]_vars

\* One call of generate_file_path, on its own: of a content without a title,
\* or with a title (the content then plays no part).
InitNamer ==
    /\ BotAtRest
    /\ clock = 0
    /\ publish = NotPublishing
    /\ compress = NotCalled
    /\ resize = NotResized
    /\ assemble = NotAssembled
    /\ lister = NotListed
    /\ \/ \E content \in ShortTexts \cup LongTexts :
              namer = [NotNamed EXCEPT !.pc = "start", !.content = content]
       \/ \E title \in ShortTexts :
              namer = [NotNamed EXCEPT !.pc = "start", !.title = title]

NextNamer == GenerateFilePath

SpecNamer == InitNamer /\ [][NextNamer]_vars

\* One call of assemble_content_with_title, on its own, for every document and
\* title of the model.
InitAssemble ==
    /\ BotAtRest
    /\ clock = 0
    /\ publish = NotPublishing
    /\ compress = NotCalled
    /\ resize = NotResized
    /\ namer = NotNamed
    /\ lister = NotListed
    /\ \E body \in Documents, title \in Titles :
          assemble = [NotAssembled EXCEPT !.pc = "start", !.body = body,
                                         !.title = title]

NextAssemble == AssembleContentWithTitle

SpecAssemble == InitAssemble /\ [][NextAssemble]_vars

\* One /list, on its own: its limit and the call of list_essays, for every
\* argument and directory of the model.
InitList ==
    /\ BotAtRest
    /\ clock = 0
    /\ publish = NotPublishing
    /\ compress = NotCalled
    /\ resize = NotResized
    /\ namer = NotNamed
    /\ assemble = NotAssembled
    /\ \E args \in ListArgs, items \in Directories :
          lister = [NotListed EXCEPT !.pc = "start", !.args = args, !.items = items]

NextList == ListCall

SpecList == InitList /\ [][NextList]_vars

\* The first two statements of publish_content, on their own, for every body
\* and starting time of the model, with the clock running.
InitPublish ==
    /\ BotAtRest
    /\ compress = NotCalled
    /\ resize = NotResized
    /\ namer = NotNamed
    /\ assemble = NotAssembled
    /\ lister = NotListed
    /\ clock \in ClockStarts
    /\ \E body \in Bodies :
          publish = [NotPublishing EXCEPT !.pc = "start", !.body = body]

NextPublish ==
    \/ ClockTick
    \/ PublishAssemble
    \/ PublishGeneratePath

SpecPublish == InitPublish /\ [][NextPublish]_vars

\* -------------------------------------------------------------- properties
\* How many calls of one kind a coroutine has made.
OpCount(f, op) == Cardinality({i \in DOMAIN f.calls : f.calls[i].op = op})

\* Arrival numbers grow along the sequence.
ArrivalOrder(ids) == \A i, j \in DOMAIN ids : i < j => ids[i] < ids[j]

\* A call that did not raise in the client.
CallOk(c) == c.status = 200 \/ (c.op = "get" /\ c.status = 404)

\* C1: the items of a group that arrived before its job ran are published
\* together.  The collector keeps them in arrival order, the callback uploads
\* them in that order one after the other, and when no call fails the
\* callback ends with exactly one publish (one get, one put) whose body lists
\* every item's image in arrival order.
C1_OnePublishInArrivalOrder ==
    /\ \A g \in DOMAIN _media_groups : ArrivalOrder(Photos(_media_groups[g]))
    /\ \A t \in DOMAIN tasks :
         tasks[t].kind = "flush" =>
           LET f == tasks[t]
           IN  /\ ArrivalOrder(f.photos)
               /\ Len(f.cdn_urls) <= Len(f.photos)
               /\ f.cdn_urls = SubSeq(f.photos, 1, Len(f.cdn_urls))
               /\ OpCount(f, "get") <= 1
               /\ OpCount(f, "put") <= 1
               /\ f.pc = "done" =>
                    \/ /\ f.result = "published"
                       /\ \A i \in DOMAIN f.calls : CallOk(f.calls[i])
                       /\ OpCount(f, "get") = 1
                       /\ OpCount(f, "put") = 1
                       /\ OpCount(f, "upload") = Len(f.photos)
                       /\ f.body.images = f.photos
                       /\ Len(f.photos) >= 1
                    \/ /\ f.result = "failed"
                       /\ ~CallOk(f.calls[Len(f.calls)])

C1_Witness ==
    \E t \in DOMAIN tasks :
        /\ tasks[t].kind = "flush"
        /\ tasks[t].result = "published"
        /\ Len(tasks[t].body.images) = 3

\* The jobs of group g that are still pending.
TimersOf(g) == {j \in jobs : j.data = g}

\* The jobs a step arms, and the jobs a step runs.
Armed == {k \in jobs' : \A j \in jobs : j.id # k.id}
Fired == {j \in jobs : \A k \in jobs' : k.id # j.id}

\* A job is armed only together with the creation of its group's list, by a
\* photo whose group id was not in the map, and one at a time.
ArmedByFirstItem ==
    /\ Cardinality(Armed) <= 1
    /\ \A k \in Armed :
         /\ k.data \notin DOMAIN _media_groups
         /\ k.data \in DOMAIN _media_groups'
         /\ Len(_media_groups'[k.data]) = 1
         /\ k.left = WHEN

\* A photo of a group that is in the map is appended, and the pending jobs
\* stay as they are.
LaterItemAppended ==
    \A g \in DOMAIN _media_groups \cap DOMAIN _media_groups' :
        _media_groups'[g] # _media_groups[g] =>
            /\ Len(_media_groups'[g]) = Len(_media_groups[g]) + 1
            /\ SubSeq(_media_groups'[g], 1, Len(_media_groups[g])) = _media_groups[g]
            /\ jobs' = jobs

\* A pending job keeps its group and is never put off.
DeadlineKept ==
    \A j \in jobs : \A k \in jobs' :
        j.id = k.id => k.data = j.data /\ k.left <= j.left

\* C2: the deadline job of a group is armed only by the first item of a group
\* id that is not in the map; a later item of the group is appended and
\* neither arms a second job nor changes the pending one, so a group has at
\* most one pending job while it collects.
C2_OneTimerPerGroup ==
    /\ [](\A g \in Gids : Cardinality(TimersOf(g)) <= 1)
    /\ [][ArmedByFirstItem /\ LaterItemAppended /\ DeadlineKept]_vars

C2_Witness ==
    \E g \in DOMAIN _media_groups :
        /\ Len(_media_groups[g]) >= 2
        /\ \E j \in jobs : j.data = g /\ j.left < WHEN

\* A group leaves the map only in the step that runs a job armed for it, and
\* that step is the callback's first: the callback holds the group's items and
\* has neither downloaded, uploaded nor published anything yet.
RemovedByOwnTimer ==
    \A g \in DOMAIN _media_groups \ DOMAIN _media_groups' :
        \E j \in Fired :
            /\ j.data = g
            /\ JobId(j.id) \notin DOMAIN tasks
            /\ JobId(j.id) \in DOMAIN tasks'
            /\ LET f == tasks'[JobId(j.id)]
               IN  /\ f.photos = Photos(_media_groups[g])
                   /\ f.cdn_urls = <<>>
                   /\ \A i \in DOMAIN f.calls : f.calls[i].op = "send_action"

\* A job that runs finds its group in the map and leaves the map without it.
FiredTimerRemoves ==
    \A j \in Fired :
        /\ j.left = 0
        /\ j.data \in DOMAIN _media_groups
        /\ j.data \notin DOMAIN _media_groups'

C4_GetBeforePut ==
    \A t \in DOMAIN tasks :
        LET f == tasks[t]
        IN  \A i \in DOMAIN f.calls :
                f.calls[i].op = "put" =>
                    /\ i > 1
                    /\ f.calls[i - 1].op = "get"
                    /\ f.calls[i - 1].arg = f.calls[i].arg
                    /\ f.calls[i - 1].status \in {200, 404}
                    /\ f.calls[i - 1].status = 200 =>
                         /\ f.calls[i - 1].sha # NoSha
                         /\ f.calls[i].sha = f.calls[i - 1].sha
                         /\ f.result = "published" => f.action = "update"
                    /\ f.calls[i - 1].status = 404 =>
                         /\ f.calls[i].sha = NoSha
                         /\ f.result = "published" => f.action = "add"

C4_Witness ==
    \E t \in DOMAIN tasks :
        /\ tasks[t].result = "published"
        /\ tasks[t].action = "update"
        /\ tasks[t].calls[Len(tasks[t].calls)].sha # NoSha

\* The version a coroutine about to write saw when it read the path: the sha
\* its get returned (none after a 404).  The get is its last call.
ObservedSha(f) == f.calls[Len(f.calls)].sha

\* Coroutine t is about to put, and the path no longer has the version it saw.
StalePut(t) ==
    /\ tasks[t].pc = "put"
    /\ files[tasks[t].file_path] # ObservedSha(tasks[t])

\* A put made after the path changed is rejected: the publish ends with the
\* failure notice and the store keeps what the other writer wrote.
StalePutRejected ==
    \A t \in DOMAIN tasks :
        StalePut(t) /\ tasks'[t].pc = "done" =>
            /\ tasks'[t].result = "failed"
            /\ tasks'[t].replies = Append(tasks[t].replies, "failed")
            /\ tasks'[t].calls[Len(tasks'[t].calls)].op = "put"
            /\ files' = files

\* A publish reports success only for a put of the version it saw, and that
\* put outdates every other publish waiting to put on the same path.
AcceptedPutOutdatesOthers ==
    \A t \in DOMAIN tasks :
        tasks[t].pc = "put" /\ tasks'[t].result = "published" =>
            LET p == tasks[t].file_path
            IN  /\ files[p] = ObservedSha(tasks[t])
                /\ files'[p] = nextSha
                /\ \A q \in Paths \ {p} : files'[q] = files[q]
                /\ \A s \in DOMAIN tasks \ {t} :
                       tasks[s].pc = "put" /\ tasks[s].file_path = p =>
                           files'[p] # ObservedSha(tasks'[s])

\* An outdated publish stays outdated: the path gets the observed version
\* back only when the observed version was "no file" and the file written
\* meanwhile is deleted.
StaleStays ==
    \A t \in DOMAIN tasks :
        StalePut(t) /\ tasks'[t].pc = "put" =>
            LET p == tasks[t].file_path
            IN  \/ files'[p] # ObservedSha(tasks[t])
                \/ files'[p] = NoSha /\ files[p] # NoSha

\* C5: when publishes interleave their get and put on one path, against a
\* store that rejects a put whose sha is stale or missing, the put that comes
\* after the path changed is rejected and its publish ends with an error
\* notice; the store is not changed by it, and of the publishes that saw one
\* version only the first to put reports success.
C5_StalePutRejected ==
    [][StalePutRejected /\ AcceptedPutOutdatesOthers /\ StaleStays]_vars

C5_Witness ==
    \E t \in DOMAIN tasks :
        /\ tasks[t].result = "failed"
        /\ tasks[t].calls[Len(tasks[t].calls)].op = "put"
        /\ tasks[t].calls[Len(tasks[t].calls)].status = 409

\* C6: nothing is retried.  A coroutine makes at most one get, one put and
\* one delete of content and handles each photo once; a call that fails (any
\* failure but the 404 of a get) is the coroutine's last call, and it ends
\* with the failure notice.  So a get that fails is never followed by a put.
C6_NoRetry ==
    \A t \in DOMAIN tasks :
        LET f == tasks[t]
        IN  /\ OpCount(f, "get") <= 1
            /\ OpCount(f, "put") <= 1
            /\ OpCount(f, "delete") <= 1
            /\ \A i, j \in DOMAIN f.calls :
                   /\ i # j
                   /\ f.calls[i].op = f.calls[j].op
                   /\ f.calls[i].op \in {"download", "upload"}
                   => f.calls[i].arg # f.calls[j].arg
            /\ \A i \in DOMAIN f.calls :
                   ~CallOk(f.calls[i]) =>
                       /\ i = Len(f.calls)
                       /\ f.pc = "done"
                       /\ f.result = "failed"
                       /\ f.replies # <<>>
                       /\ f.replies[Len(f.replies)] = "failed"
            /\ f.result = "failed" => ~CallOk(f.calls[Len(f.calls)])

C6_Witness ==
    \E t \in DOMAIN tasks :
        /\ tasks[t].result = "failed"
        /\ tasks[t].calls[Len(tasks[t].calls)].op = "get"
        /\ tasks[t].calls[Len(tasks[t].calls)].status = 500
        /\ OpCount(tasks[t], "put") = 0

\* The photos a coroutine has uploaded.
Uploaded(f) ==
    {f.calls[i].arg : i \in {n \in DOMAIN f.calls :
                                f.calls[n].op = "upload" /\ f.calls[n].status = 200}}

\* C7: when the download or the upload of the k-th photo of a group fails,
\* the callback ends there: that call is its last, the photos before the k-th
\* are uploaded and stay in the image repository, no later photo is uploaded,
\* nothing is published or deleted, and one failure notice is sent.
C7_BatchAborted ==
    /\ [](\A t \in DOMAIN tasks :
            LET f == tasks[t]
                k == Len(f.cdn_urls) + 1
            IN  \A i \in DOMAIN f.calls :
                    /\ f.kind = "flush"
                    /\ f.calls[i].op \in {"download", "upload"}
                    /\ ~CallOk(f.calls[i])
                    => /\ i = Len(f.calls)
                       /\ f.pc = "done"
                       /\ f.result = "failed"
                       /\ k <= Len(f.photos)
                       /\ f.calls[i].arg = f.photos[k]
                       /\ Uploaded(f) = {f.photos[m] : m \in 1..(k - 1)}
                       /\ Uploaded(f) \subseteq assets
                       /\ \A m \in k..Len(f.photos) : f.photos[m] \notin assets
                       /\ OpCount(f, "get") = 0
                       /\ OpCount(f, "put") = 0
                       /\ OpCount(f, "delete") = 0
                       /\ f.replies = <<"failed">>)
    /\ [][assets \subseteq assets']_vars

C7_Witness ==
    \E t \in DOMAIN tasks :
        /\ tasks[t].kind = "flush"
        /\ tasks[t].result = "failed"
        /\ Len(tasks[t].photos) = 3
        /\ Len(tasks[t].cdn_urls) = 1
        /\ tasks[t].calls[Len(tasks[t].calls)].op = "upload"
        /\ tasks[t].photos[1] \in assets

\* A DELETE made after the file changed is rejected, and an accepted DELETE
\* removes the version that was read.
DeleteOfReadVersion ==
    \A t \in DOMAIN tasks :
        tasks[t].pc = "ddel" /\ tasks'[t].pc = "done" =>
            LET p == tasks[t].file_path
            IN  IF files[p] # ObservedSha(tasks[t])
                THEN /\ tasks'[t].result = "failed"
                     /\ tasks'[t].replies = Append(tasks[t].replies, "failed")
                     /\ files' = files
                ELSE tasks'[t].result = "deleted" =>
                         files' = [files EXCEPT ![p] = NoSha]

\* C8: delete reads the path first.  When the path has no file it ends with
\* the "does not exist" reply and sends no DELETE; otherwise it sends exactly
\* one DELETE, with the sha the read returned, and when the file changed
\* between the read and the DELETE the delete fails and the file stays.
C8_DeleteReadsFirst ==
    /\ [](\A t \in DOMAIN tasks :
            LET f == tasks[t]
            IN  f.kind = "delete" =>
                  /\ OpCount(f, "put") = 0
                  /\ f.result = "not_found" =>
                       /\ f.calls[Len(f.calls)].op = "get"
                       /\ f.calls[Len(f.calls)].status = 404
                       /\ OpCount(f, "delete") = 0
                       /\ f.replies = <<"not_exist">>
                  /\ f.result = "deleted" => OpCount(f, "delete") = 1
                  /\ OpCount(f, "delete") <= 1
                  /\ \A i \in DOMAIN f.calls :
                         f.calls[i].op = "delete" =>
                             /\ i > 1
                             /\ f.calls[i - 1].op = "get"
                             /\ f.calls[i - 1].status = 200
                             /\ f.calls[i - 1].arg = f.calls[i].arg
                             /\ f.calls[i].arg = f.file_path
                             /\ f.calls[i].sha = f.calls[i - 1].sha
                             /\ f.calls[i].sha # NoSha)
    /\ [][DeleteOfReadVersion]_vars

C8_Witness ==
    \E t \in DOMAIN tasks :
        /\ tasks[t].kind = "delete"
        /\ tasks[t].result = "failed"
        /\ tasks[t].calls[Len(tasks[t].calls)].op = "delete"
        /\ tasks[t].calls[Len(tasks[t].calls)].status = 409

\* What a submission is, read off the update itself.
BlankBody(text) == Strip(text) = <<>>

MarkdownNames == {<<"a", ".", "m", "d">>, <<"A", ".", "M", "D">>}

\* The handler let the user in and saw the update.
Seen(f, kind) == f.kind = kind /\ f.result # "unauthorized"

\* A blank text, a document not named *.md (in any case of letters) and a
\* document whose reported size is over 5 MiB are turned away with no call at
\* all made for them.
TurnedAwayAtOnce(f) ==
    /\ Seen(f, "text") /\ BlankBody(f.body.text) =>
           f.result = "ignored" /\ f.calls = <<>>
    /\ Seen(f, "document") /\ f.doc.file_name \notin MarkdownNames =>
           f.result = "rejected" /\ f.calls = <<>>
    /\ Seen(f, "document") /\ f.doc.file_size > MAX_DOC_SIZE =>
           f.result = "rejected" /\ f.calls = <<>>

\* C9 as stated: every submission that fails validation, the document with
\* empty content included, is rejected with no file download and no request
\* to the store made for it.
C9_RejectedBeforeAnyCall ==
    \A t \in DOMAIN tasks :
        LET f == tasks[t]
        IN  /\ TurnedAwayAtOnce(f)
            /\ f.result \in {"ignored", "rejected"} =>
                   \A i \in DOMAIN f.calls :
                       f.calls[i].op \notin
                           {"download", "upload", "get", "put", "delete"}

\* C9: a blank text, a document not named *.md and a document whose reported
\* size is over 5 MiB are rejected before any call is made for them; a
\* document whose content is empty is rejected after its file was downloaded
\* (that download is its only call besides the chat action) and before any
\* request to the store, so nothing blank is ever read or put there.
C9_RejectedBeforeStore ==
    \A t \in DOMAIN tasks :
        LET f == tasks[t]
        IN  /\ TurnedAwayAtOnce(f)
            /\ f.result = "rejected" /\ f.replies = <<"empty">> =>
                   /\ Len(f.calls) = 2
                   /\ f.calls[1].op = "send_action"
                   /\ f.calls[2].op = "download"
                   /\ f.calls[2].status = 200
            /\ f.kind \in {"text", "document"} /\ OpCount(f, "get") > 0 =>
                   ~BlankBody(f.body.text)

C9_Witness ==
    \E t \in DOMAIN tasks :
        /\ tasks[t].kind = "document"
        /\ tasks[t].result = "rejected"
        /\ tasks[t].replies = <<"empty">>
        /\ OpCount(tasks[t], "download") = 1

\* C10: a call of compress_image returns, and the loop of _smart_compress
\* re-encodes at most 8 times after the first encode at quality 85, whatever
\* sizes the encoder produces.
C10_CompressTerminates ==
    /\ <>(compress.pc = "returned")
    /\ [](/\ Len(compress.encodes) <= 9
          /\ compress.pc = "loop" => compress.encodes[1] = 85)

C10_Witness ==
    /\ compress.pc = "returned"
    /\ Len(compress.encodes) = 9
    /\ compress.encodes[1] = 85

\* The call went through _smart_compress (the first encode is at quality 85).
Adaptive == compress.encodes # <<>> /\ compress.encodes[1] = IMAGE_QUALITY

\* The last re-encode ended the loop by the 5% test.
StoppedEarly ==
    /\ compress.pc = "returned"
    /\ Len(compress.encodes) > 1
    /\ compress.data * 100 > compress.prev_size * 95

\* C11 as stated: in adaptive compression every encode uses a quality in
\* 10..85, and a loop that ends over the target without an early stop ends at
\* quality 10.
C11_QualityFloor ==
    Adaptive =>
        /\ \A i \in DOMAIN compress.encodes : compress.encodes[i] \in 10..85
        /\ compress.pc = "returned" /\ compress.data > MAX_FILE_SIZE /\ ~StoppedEarly
               => compress.quality = 10

\* The quality 5 is reached: eight re-encodes, the last one below the floor.
C11_Witness ==
    /\ Adaptive
    /\ compress.pc = "returned"
    /\ compress.quality = 5
    /\ compress.data > MAX_FILE_SIZE
    /\ ~StoppedEarly

\* One round of the loop was made in this step.
Reencoded ==
    /\ compress.pc = "loop"
    /\ Len(compress'.encodes) = Len(compress.encodes) + 1

\* C18 as stated: a re-encode ends the loop exactly when the new size is at
\* least 95% of the previous size, the size of exactly 95% included.
C18_StopsAtFivePercent ==
    [][Reencoded =>
          /\ compress'.prev_size = compress.data
          /\ compress'.pc = "returned"
                <=> compress'.data * 100 >= compress'.prev_size * 95]_vars

\* C18: a re-encode ends the loop exactly when the new size is more than 95%
\* of the previous size (the gain is less than 5%); at exactly 95%, and below,
\* the loop goes back to its test.
C18_StopsBelowFivePercent ==
    [][Reencoded =>
          /\ compress'.prev_size = compress.data
          /\ compress'.pc \in {"returned", "loop"}
          /\ compress'.pc = "returned"
                <=> compress'.data * 100 > compress'.prev_size * 95]_vars

C18_Witness ==
    /\ compress.pc = "loop"
    /\ Len(compress.encodes) > 1
    /\ compress.data * 100 = compress.prev_size * 95
    /\ LoopContinues(compress.data, compress.quality)

\* Some factor s gives both sizes by truncation: w2 = int(w * s) and
\* h2 = int(h * s), that is w2 / w <= s < (w2 + 1) / w and the same for h.
CommonFactor(w, h, w2, h2) ==
    /\ w2 * h < (h2 + 1) * w
    /\ h2 * w < (w2 + 1) * h

\* The resized image fits the bounds, is not larger than the input in either
\* dimension, and is the input when the input fits.
ResizeWithinBounds ==
    resize.pc = "done" =>
        LET w == resize.size[1]
            h == resize.size[2]
            w2 == resize.result[1]
            h2 == resize.result[2]
        IN  /\ w2 <= MAX_IMAGE_WIDTH /\ h2 <= MAX_IMAGE_HEIGHT
            /\ w2 <= w /\ h2 <= h
            /\ w <= MAX_IMAGE_WIDTH /\ h <= MAX_IMAGE_HEIGHT => <<w2, h2>> = <<w, h>>

\* C19 as stated: the resized size fits 1920 x 1080, is never larger than the
\* input, is the input when the input fits, and otherwise is the input scaled
\* by one common factor up to integer truncation.
C19_ResizeKeepsAspect ==
    /\ ResizeWithinBounds
    /\ resize.pc = "done" =>
           CommonFactor(resize.size[1], resize.size[2],
                        resize.result[1], resize.result[2])

\* A 2:1 image comes out 1920 x 959.
C19_Witness ==
    /\ resize.pc = "done"
    /\ resize.size = <<2410, 1205>>
    /\ resize.result = <<1920, 959>>

\* A qualifying character: a CJK ideograph U+4E00..U+9FA5 or an ASCII letter.
Qualifying(ch) ==
    \/ ch >= 19968 /\ ch <= 40869
    \/ ch >= 65 /\ ch <= 90
    \/ ch >= 97 /\ ch <= 122

\* The first min(4, n) of the n qualifying characters of a text, in order.
FirstQualifying(text) ==
    LET q == SelectSeq(text, Qualifying)
    IN  SubSeq(q, 1, IF Len(q) < 4 THEN Len(q) ELSE 4)

\* C12: the slug generate_file_path extracts is the first min(4, n) qualifying
\* characters of the text it scans, in their order, n being the number of
\* qualifying characters of that text (the title when one is given, else the
\* content after its frontmatter and markdown are stripped); every other
\* character is skipped without counting, so the slug has at most 4 characters,
\* all qualifying, and the path carries a slug exactly when n > 0.
C12_SlugIsFirstFourQualifying ==
    namer.pc = "done" =>
        /\ namer.first4 = FirstQualifying(namer.plain)
        /\ namer.title # <<>> => namer.first4 = FirstQualifying(namer.title)
        /\ Len(namer.first4) <= 4
        /\ \A i \in 1..Len(namer.first4) : Qualifying(namer.first4[i])
        /\ namer.with_slug <=> (\E i \in 1..Len(namer.plain) : Qualifying(namer.plain[i]))

\* The content 123!!(U+4F60)(U+597D) world, which has digits, punctuation and a
\* space among seven qualifying characters, got the slug (U+4F60)(U+597D)wo.
C12_Witness ==
    /\ namer.pc = "done"
    /\ namer.content = <<49, 50, 51, 33, 33, 20320, 22909, 32, 119, 111, 114, 108, 100>>
    /\ namer.first4 = <<20320, 22909, 119, 111>>

\* What merge adds to the fields old for the given title: title and pubDate,
\* in this order, each only when old does not have the key.
Missing(old, title) ==
    (IF TitleKey \in Keys(old) THEN <<>> ELSE <<<<TitleKey, title>>>>)
        \o (IF PubDateKey \in Keys(old) THEN <<>> ELSE <<<<PubDateKey, DateStr>>>>)

\* C13: when the body handed to assemble_content_with_title has a frontmatter
\* block with at least one field, the fields written begin with the parsed
\* fields, every key with its value at its place, followed by title and pubDate
\* where the key was missing and by nothing else; and in every case, with a
\* block or without, the fields written have both title and pubDate.
C13_MergeKeepsExisting ==
    assemble.pc = "done" =>
        /\ assemble.parsed # <<>> =>
               assemble.fields = assemble.parsed \o Missing(assemble.parsed, assemble.title)
        /\ TitleKey \in Keys(assemble.fields)
        /\ PubDateKey \in Keys(assemble.fields)
        /\ assemble.output = Serialize(assemble.fields) \o <<10, 10>> \o assemble.body_text

\* A document whose block has a title of its own (Old) and tags but no pubDate
\* was assembled under another title: the title and the tags stay as and where
\* they were, and pubDate is added after them.
C13_Witness ==
    /\ assemble.pc = "done"
    /\ assemble.title = <<78, 101, 119>>
    /\ assemble.parsed = <<<<TitleKey, <<79, 108, 100>>>>, <<<<116, 97, 103, 115>>, <<120>>>>>>
    /\ assemble.fields = assemble.parsed \o <<<<PubDateKey, DateStr>>>>

\* C14: parsing the block that serialization produces from the fields written
\* returns those fields: the same keys with the same values in the same order.
C14_RoundTrip ==
    assemble.pc = "done" =>
        ParseFrontmatter(Serialize(assemble.fields)).fields = assemble.fields

\* The title 'q' was written as  title: "'q'" , which parses back as q.
C14_Witness ==
    /\ assemble.pc = "done"
    /\ assemble.fields[1] = <<TitleKey, <<39, 113, 39>>>>
    /\ ParseFrontmatter(Serialize(assemble.fields)).fields[1] = <<TitleKey, <<113>>>>

\* C20 as stated: whenever a block was matched at the start of the input, with
\* a parseable field or without, the output is the written block followed by
\* the text after the matched block; the whole input follows a fresh block
\* only when no block was matched.
C20_BlockNeverRepeated ==
    assemble.pc = "done" =>
        /\ assemble.found =>
               assemble.output = Serialize(assemble.fields) \o <<10, 10>> \o assemble.rest
        /\ ~assemble.found =>
               assemble.output =
                   Serialize(<<<<TitleKey, assemble.title>>, <<PubDateKey, DateStr>>>>)
                       \o <<10, 10>> \o assemble.body

\* C20: when a block with at least one parseable field was matched, the output
\* is the merged block followed by the text after the matched block; when no
\* field was parsed, because no block was matched or because the matched block
\* has no key/value line, the output is a fresh title and pubDate block followed
\* by the whole input, the matched block included.
C20_BlockReplacedWhenItHasFields ==
    assemble.pc = "done" =>
        /\ assemble.parsed # <<>> =>
               /\ assemble.found
               /\ assemble.output =
                      Serialize(assemble.parsed \o Missing(assemble.parsed, assemble.title))
                          \o <<10, 10>> \o assemble.rest
        /\ assemble.parsed = <<>> =>
               assemble.output =
                   Serialize(<<<<TitleKey, assemble.title>>, <<PubDateKey, DateStr>>>>)
                       \o <<10, 10>> \o assemble.body

\* A document that starts with a block without any key/value line was
\* assembled: the block is there again after the fresh one.
C20_Witness ==
    /\ assemble.pc = "done"
    /\ assemble.found
    /\ assemble.parsed = <<>>
    /\ assemble.rest # assemble.body
    /\ assemble.body_text = assemble.body

\* The entries of a directory whose name ends in .md
MdNames(items) ==
    {items[i] : i \in {j \in DOMAIN items :
        /\ Len(items[j]) >= 3
        /\ SubSeq(items[j], Len(items[j]) - 2, Len(items[j])) = <<46, 109, 100>>}}

\* essays is the first count entries of the .md entries of items in descending
\* order of name: only .md entries, each before every smaller one, and no
\* entry left out that is greater than one taken.
NewestFirst(essays, items, count) ==
    LET taken == {essays[i] : i \in DOMAIN essays}
    IN  /\ Len(essays) = count
        /\ taken \subseteq MdNames(items)
        /\ \A i, j \in DOMAIN essays : i < j => Less(essays[j], essays[i])
        /\ \A x \in MdNames(items) \ taken : \A y \in taken : Less(x, y)

\* C15: for every limit list_handler passes (its argument capped at 30, or the
\* default), list_essays(limit) returns the first min(limit, n) of the n
\* entries that end in .md, in descending order of name, and never more than
\* limit entries.
C15_ListTruncatedToLimit ==
    lister.pc = "done" =>
        LET n == Cardinality(MdNames(lister.items))
        IN  /\ lister.limit <= MAX_LIMIT
            /\ NewestFirst(lister.essays, lister.items,
                           IF lister.limit < n THEN lister.limit ELSE n)
            /\ Len(lister.essays) <= lister.limit

\* /list -1 on a directory with three .md entries returned two entries.
C15_Witness ==
    /\ lister.pc = "done"
    /\ lister.args = <<<<45, 49>>>>
    /\ lister.limit = 0 - 1
    /\ Cardinality(MdNames(lister.items)) = 3
    /\ Len(lister.essays) = 2

\* A caption with something other than whitespace in it.
NotBlank(caption) == \E i \in 1..Len(caption) : caption[i] \notin WhiteSpace

RECURSIVE FirstNotBlank(_)
\* The first caption of the updates, in list order, that is not blank; <<>>
\* when there is none.
FirstNotBlank(updates) ==
    IF updates = <<>> THEN <<>>
    ELSE IF NotBlank(Head(updates).caption) THEN Head(updates).caption
    ELSE FirstNotBlank(Tail(updates))

\* What a body shows of the caption picked: the caption, unless it is blank.
Shown(caption) == IF NotBlank(caption) THEN caption ELSE <<>>

\* The callback of job j starts in this step and finds updates to publish.
Flushes(j) ==
    /\ JobId(j.id) \notin DOMAIN tasks
    /\ JobId(j.id) \in DOMAIN tasks'
    /\ tasks'[JobId(j.id)].pc # "done"

\* Coroutine t, a flush, composes its body in this step.
Composes(t) ==
    /\ t \in DOMAIN tasks'
    /\ tasks[t].kind = "flush"
    /\ tasks[t].pc = "item"
    /\ tasks'[t].pc = "get"

\* C16: when a group is flushed, the caption its body will show is the first
\* caption among the group's items, in arrival order, that is not empty
\* (blank captions aside); when the body is composed it begins with that
\* caption, if there is one, and carries no other caption.
C16_FirstCaptionUsed ==
    [][/\ \A j \in jobs :
            Flushes(j) =>
                Shown(tasks'[JobId(j.id)].caption) = FirstNotBlank(_media_groups[j.data])
       /\ \A t \in DOMAIN tasks :
            Composes(t) =>
                /\ tasks'[t].body.text = Shown(tasks[t].caption)
                /\ tasks'[t].body.images = tasks'[t].cdn_urls]_vars

\* Every coroutine that works for a user outside the allowlist was turned away
\* before it did anything: it made no call and sent no reply.
StrangersTurnedAway ==
    \A t \in DOMAIN tasks :
        tasks[t].user \notin ALLOWED_USERS =>
            /\ tasks[t].pc = "done"
            /\ tasks[t].calls = <<>>
            /\ tasks[t].replies = <<>>
            /\ \/ tasks[t].result = "unauthorized"
               \/ tasks[t].kind = "flush" /\ tasks[t].result = "empty"

\* Every update in the collector is of an allowed user, and every pending job
\* was armed for a group whose first update is.
CollectorOfAllowedUsers ==
    /\ \A g \in DOMAIN _media_groups :
          \A i \in 1..Len(_media_groups[g]) : _media_groups[g][i].user \in ALLOWED_USERS
    /\ \A j \in jobs :
          /\ j.data \in DOMAIN _media_groups
          /\ _media_groups[j.data] # <<>>

\* With an empty allowlist nothing has happened but refusals.
NothingWithoutAllowlist ==
    ALLOWED_USERS = {} =>
        /\ _media_groups = <<>>
        /\ jobs = {}
        /\ nextJob = 0
        /\ assets = {}
        /\ \A p \in Paths : files[p] = NoSha
        /\ \A t \in DOMAIN tasks : tasks[t].result = "unauthorized"

\* A step in which an update is refused changes nothing but the dispatcher's
\* count and the frames.
RefusalChangesNothing ==
    (\E t \in DOMAIN tasks' \ DOMAIN tasks : tasks'[t].result = "unauthorized")
        => UNCHANGED <<_media_groups, jobs, nextJob, files, nextSha, assets>>

\* C17: no store request (get, put, delete, list, upload), nor any other call,
\* is made for an update of a user who is not in the allowlist; such an update
\* is refused by its handler at once, a refused photo neither enters the
\* collector nor arms a job, and with an empty allowlist nothing reaches the
\* store, the collector or the job queue.
C17_NoRequestWithoutAuthorization ==
    /\ [](StrangersTurnedAway /\ CollectorOfAllowedUsers /\ NothingWithoutAllowlist)
    /\ [][RefusalChangesNothing]_vars

\* A stranger's photo was refused while a group of the owner waits in the
\* collector for its job.
C17_Witness ==
    /\ ALLOWED_USERS = {Owner}
    /\ _media_groups # <<>>
    /\ jobs # {}
    /\ \E t \in DOMAIN tasks :
          /\ tasks[t].user = Stranger
          /\ tasks[t].kind = "photo"
          /\ tasks[t].result = "unauthorized"

\* ----------------------------------------------------------------------
\* C21: in the batch path and in the single-image path every image is run
\* through compress_image before it is uploaded: every asset a coroutine has
\* sent to the image repository is the bytes compress_image returned for the
\* photo it downloaded just before.
C21_CompressedBeforeUpload ==
    \A t \in DOMAIN tasks :
        LET f == tasks[t]
        IN  \A i \in 1..Len(f.calls) :
                f.calls[i].op = "upload"
                => /\ i > 1
                   /\ f.calls[i - 1].op = "download"
                   /\ f.calls[i - 1].arg = f.calls[i].arg
                   /\ f.calls[i].data = CompressImageResult(Downloaded(f.calls[i].arg))

\* What does hold: every upload follows the download of the same photo and
\* sends the downloaded bytes as they are.
UploadsWhatWasDownloaded ==
    \A t \in DOMAIN tasks :
        LET f == tasks[t]
        IN  \A i \in 1..Len(f.calls) :
                f.calls[i].op = "upload"
                => /\ i > 1
                   /\ f.calls[i - 1].op = "download"
                   /\ f.calls[i - 1].arg = f.calls[i].arg
                   /\ f.calls[i].data = Downloaded(f.calls[i].arg)

\* A flush has uploaded two photos and a single photo has been uploaded.
C21_Witness ==
    /\ \E t \in DOMAIN tasks :
          tasks[t].kind = "flush" /\ OpCount(tasks[t], "upload") = 2
    /\ \E t \in DOMAIN tasks :
          tasks[t].kind = "photo" /\ OpCount(tasks[t], "upload") = 1

\* ----------------------------------------------------------------------
\* The date in a path of generate_file_path: the ten characters after
\* src/content/essays/.
PathDate(file_path) == SubSeq(file_path, 20, 29)

\* The time of day in a path: the six digits before -NNN.md.
PathTime(file_path) == SubSeq(file_path, Len(file_path) - 12, Len(file_path) - 7)

\* The slug in a path: what stands between the date and the time of day,
\* without the hyphens around it; empty when the path has no slug.
PathSlug(file_path) ==
    IF Len(file_path) <= 43 THEN <<>>
    ELSE SubSeq(file_path, 31, Len(file_path) - 14)

\* The date and the time of day of the pubDate line of a generated
\* frontmatter: ---\npubDate: "YYYY-MM-DD HH:MM:SS"
PubDateDate(content) == SubSeq(content, 15, 24)

PubDateTime(content) ==
    SubSeq(content, 26, 27) \o SubSeq(content, 29, 30) \o SubSeq(content, 32, 33)

\* The slug of the body alone: the first four qualifying characters of the
\* body once its images, links and markdown symbols are taken out.
BodySlug(body) ==
    FirstQualifying(SelectSeq(SubLinks(SubImages(body, 1), 1),
                              LAMBDA ch : ~_RE_MD_SYMBOL(ch)))

\* The slug of a path is the slug of the body, whatever the times are.
SlugFromBodyOnly ==
    publish.pc = "named" => PathSlug(publish.file_path) = BodySlug(publish.body)

\* C22: for one text publish the date and the time of day in the file path
\* denote the same second as the pubDate in the file's frontmatter, whatever
\* the clock does between the steps, and the slug in the path is taken from
\* the body alone, never from the generated frontmatter block.
C22_PathTimeIsPubDate ==
    publish.pc = "named" =>
        /\ PathDate(publish.file_path) = PubDateDate(publish.full_content)
        /\ PathTime(publish.file_path) = PubDateTime(publish.full_content)
        /\ PathSlug(publish.file_path) = BodySlug(publish.body)

\* The clock did not move between the two statements.
SameSecondWhenClockStands ==
    publish.pc = "named" /\ publish.now = publish.pub_date =>
        /\ PathDate(publish.file_path) = PubDateDate(publish.full_content)
        /\ PathTime(publish.file_path) = PubDateTime(publish.full_content)

\* A publish whose frontmatter was stamped at 23:59:59 and whose path was
\* named a second later, on the next day.
C22_Witness ==
    /\ publish.pc = "named"
    /\ publish.pub_date = 86399
    /\ publish.now = 86400

\* ----------------------------------------------------------------------
\* Where the photo with arrival number n is held: positions of the lists of
\* the map, and of the photos of the flushes.
InMap(n) ==
    {x \in (DOMAIN _media_groups) \X (1..MaxUpdates) :
        /\ x[2] <= Len(_media_groups[x[1]])
        /\ _media_groups[x[1]][x[2]].id = n}

InFlush(n) ==
    {x \in (DOMAIN tasks) \X (1..MaxUpdates) :
        /\ tasks[x[1]].kind = "flush"
        /\ x[2] <= Len(tasks[x[1]].photos)
        /\ tasks[x[1]].photos[x[2]] = n}

\* No photo is held twice: not by two lists, not by two flushes, and not by a
\* list and a flush.
NoItemTwice ==
    \A n \in 1..nextUpdate : Cardinality(InMap(n)) + Cardinality(InFlush(n)) <= 1

\* Every item that waits in the map has a pending job of its group.
WaitingItemsHaveTimer ==
    \A g \in DOMAIN _media_groups :
        _media_groups[g] # <<>> => TimersOf(g) # {}

\* The step in which photo_handler was called for a grouped photo of an
\* allowed user: the photo is then the last item of its own group's list, in
\* no other list, and a job of that group is pending.
ArrivedItemCollected ==
    LET n == nextUpdate'
        t == HandlerId(n)
    IN  (/\ n = nextUpdate + 1
         /\ t \in DOMAIN tasks'
         /\ tasks'[t].kind = "photo"
         /\ tasks'[t].group_id # 0)
        => LET g == tasks'[t].group_id
           IN  /\ g \in DOMAIN _media_groups'
               /\ _media_groups'[g] # <<>>
               /\ _media_groups'[g][Len(_media_groups'[g])].id = n
               /\ \A h \in DOMAIN _media_groups' \ {g} :
                     \A i \in 1..Len(_media_groups'[h]) : _media_groups'[h][i].id # n
               /\ \E j \in jobs' : j.data = g

\* A flush keeps the items it popped and its group id until it returns.
FlushKeepsItems ==
    \A t \in DOMAIN tasks \cap DOMAIN tasks' :
        tasks[t].kind = "flush"
        => /\ tasks'[t].photos = tasks[t].photos
           /\ tasks'[t].group_id = tasks[t].group_id

\* C23: every grouped photo of an allowed user is consumed by exactly one
\* flush.  On arrival it is put at the end of the list of its own group id and
\* of no other, with a job of that group pending (a photo whose group is not
\* in the map, because its job has run or its flush is still uploading,
\* starts a new list with a new job); a list only grows by appending and
\* leaves the map only into the flush its job starts, which holds exactly
\* that list's photos until it returns; no photo is held twice.  So no item
\* is dropped, none is published twice, and a publish holds the items of one
\* group id only.
C23_ItemConsumedByOneFlush ==
    /\ [](NoItemTwice /\ WaitingItemsHaveTimer)
    /\ [][ArrivedItemCollected /\ LaterItemAppended /\ RemovedByOwnTimer
          /\ FlushKeepsItems]_vars

\* The same, for the bot whose application has a job queue.
CollectedWhenQueueExists ==
    /\ [](job_queue => NoItemTwice /\ WaitingItemsHaveTimer)
    /\ [][job_queue => ArrivedItemCollected /\ LaterItemAppended
                       /\ RemovedByOwnTimer /\ FlushKeepsItems]_vars

\* A photo of group g waits in a new list, with its own job, while the flush
\* of the earlier items of g is suspended in its uploads.
C23_Witness ==
    \E t \in DOMAIN tasks :
        /\ tasks[t].kind = "flush"
        /\ tasks[t].pc = "item"
        /\ tasks[t].group_id \in DOMAIN _media_groups
        /\ _media_groups[tasks[t].group_id] # <<>>
        /\ TimersOf(tasks[t].group_id) # {}

\* ----------------------------------------------------------------------
\* C24: at every suspension point each group id in the map has exactly one
\* pending job and a list that is not empty, also when arming the job failed
\* with an exception; so no entry stays in the map that no job will flush.
C24_EveryGroupHasItsTimer ==
    \A g \in DOMAIN _media_groups :
        /\ Cardinality(TimersOf(g)) = 1
        /\ _media_groups[g] # <<>>

\* The same, for the bot whose application has a job queue (run_once does
\* not raise).
EveryGroupHasItsTimerWhenQueueExists ==
    job_queue => C24_EveryGroupHasItsTimer

\* An entry without a job, once it is there, is there for good: no step
\* removes it or arms a job for it.
OrphanStays ==
    \A g \in DOMAIN _media_groups :
        TimersOf(g) = {}
        => /\ g \in DOMAIN _media_groups'
           /\ \A k \in jobs' : k.data # g

\* A group whose job could not be armed holds a later photo of the group,
\* and no job is pending for it.
C24_Witness ==
    \E g \in DOMAIN _media_groups :
        /\ TimersOf(g) = {}
        /\ Len(_media_groups[g]) >= 1

\* ----------------------------------------------------------------------
\* The coroutines of photos that came without a group id.
SinglePhotos(frames) ==
    {t \in DOMAIN frames : frames[t].kind = "photo" /\ frames[t].photos # <<>>}

\* The calls of a single photo that was published, in their order.
SinglePhotoCalls == <<"send_action", "download", "upload", "get", "put">>

\* A single photo holds one photo and no group id; its calls so far are the
\* first calls of SinglePhotoCalls, each made for that photo; it ends published
\* after all five went well, with the one image in its body, or failed at the
\* call that raised.
SinglePhotoRuns ==
    \A t \in SinglePhotos(tasks) :
        LET f == tasks[t]
        IN  /\ Len(f.photos) = 1
            /\ f.group_id = 0
            /\ Len(f.calls) <= Len(SinglePhotoCalls)
            /\ \A i \in 1..Len(f.calls) : f.calls[i].op = SinglePhotoCalls[i]
            /\ \A i \in 1..Len(f.calls) :
                   f.calls[i].op \in {"download", "upload"} => f.calls[i].arg = f.photos[1]
            /\ f.pc = "done" =>
                   \/ /\ f.result = "published"
                      /\ Len(f.calls) = Len(SinglePhotoCalls)
                      /\ \A i \in 1..Len(f.calls) : CallOk(f.calls[i])
                      /\ f.body.images = f.photos
                      /\ f.replies = <<"published">>
                   \/ /\ f.result = "failed"
                      /\ ~CallOk(f.calls[Len(f.calls)])
                      /\ \A i \in 1..(Len(f.calls) - 1) : CallOk(f.calls[i])

\* A step of a single photo, its arrival included, leaves the map and the
\* pending jobs as they are; it starts at once, with its first call made and
\* no job armed.
SinglePhotoBypassesCollector ==
    /\ \A t \in SinglePhotos(tasks') :
         (t \notin DOMAIN tasks \/ tasks'[t] # tasks[t])
         => /\ _media_groups' = _media_groups
            /\ jobs' = jobs
            /\ nextJob' = nextJob
    /\ \A t \in SinglePhotos(tasks') \ DOMAIN tasks :
         /\ tasks'[t].pc = "item"
         /\ Len(tasks'[t].calls) = 1

\* The body of a single photo is composed once, after its upload: the
\* caption, unless it is blank, and the one image; it is what is published.
SinglePhotoBody ==
    \A t \in SinglePhotos(tasks) \cap DOMAIN tasks' :
        /\ tasks[t].pc = "item" /\ tasks'[t].pc = "get"
           => /\ tasks'[t].body.text = Shown(tasks[t].caption)
              /\ tasks'[t].body.images = <<tasks[t].photos[1]>>
        /\ tasks[t].pc \in {"get", "put"} => tasks'[t].body = tasks[t].body

\* C25: a photo without a group id leaves the map of groups and every pending
\* job unchanged and is published at once: exactly one upload of the asset,
\* then exactly one publish (a get and a put), with a body that is the caption
\* (if it is not blank) followed by one image reference.
C25_SinglePhotoBypassesCollector ==
    /\ []SinglePhotoRuns
    /\ [][SinglePhotoBypassesCollector /\ SinglePhotoBody]_vars

\* A single photo with a blank caption was published while an album waits
\* for its job.
C25_Witness ==
    /\ _media_groups # <<>>
    /\ jobs # {}
    /\ \E t \in SinglePhotos(tasks) :
          /\ tasks[t].result = "published"
          /\ tasks[t].body.text = <<>>

====
